---- MODULE Spec2Model ----
(***************************************************************************)
(* koa-spec: loading of a Swagger document ($ref resolution) and           *)
(* validation / coercion of request parameters against its schemas.        *)
(*                                                                         *)
(* JavaScript values are tagged records.  A string is a sequence of text   *)
(* chunks: data strings are written one character per chunk, identifiers   *)
(* of the document (property names, type and format names) as one chunk,   *)
(* JSON pointers as their segments separated by "/" chunks.  An object is  *)
(* the sequence of its own enumerable properties in insertion order.       *)
(***************************************************************************)
EXTENDS Integers, Sequences, FiniteSets

-----------------------------------------------------------------------------
(* JavaScript values *)

Undefined == [k |-> "undefined"]
Null == [k |-> "null"]
NaN == [k |-> "NaN"]
Bool(b) == [k |-> "boolean", b |-> b]
Str(s) == [k |-> "string", s |-> s]
S(c) == Str(<<c>>)
Arr(a) == [k |-> "array", a |-> a]
Obj(o) == [k |-> "object", o |-> o]
P(key, val) == [key |-> key, val |-> val]
\* a finite number: sign, integer digits (no leading zero), fraction digits
\* (no trailing zero); zero is the number with no digits at all
Number(neg, ip, fp) == [k |-> "number", neg |-> neg, ip |-> ip, fp |-> fp]
DateOf(s) == [k |-> "date", iso |-> s]

isUndefined(v) == v.k = "undefined"
isNull(v) == v.k = "null"
isString(v) == v.k = "string"
isBoolean(v) == v.k = "boolean"
isArray(v) == v.k = "array"
isNaN(v) == v.k = "NaN"
\* ToBoolean, as used by `!x` and `if (x)`
Truthy(v) ==
  CASE v.k \in {"undefined", "null", "NaN"} -> FALSE
    [] v.k = "boolean" -> v.b
    [] v.k = "string" -> v.s # <<>>
    [] v.k = "number" -> v.ip # <<>> \/ v.fp # <<>>
    [] OTHER -> TRUE

RECURSIVE DigitsOf(_)
DigitsOf(n) == IF n = 0 THEN <<>> ELSE Append(DigitsOf(n \div 10), n % 10)
Num(n) == Number(n < 0, DigitsOf(IF n < 0 THEN -n ELSE n), <<>>)

Keys(v) == IF v.k = "object" THEN {v.o[i].key : i \in DOMAIN v.o} ELSE {}
HasOwn(v, key) == key \in Keys(v)
\* v[key] for a value that is neither null nor undefined: an own property of
\* an object, an index of an array, otherwise undefined
Get(v, key) ==
  IF HasOwn(v, key)
  THEN v.o[CHOOSE i \in DOMAIN v.o : v.o[i].key = key].val
  ELSE Undefined
\* obj[key] = val on an object: replaces in place or appends
Put(v, key, val) ==
  IF HasOwn(v, key)
  THEN Obj([i \in DOMAIN v.o |-> IF v.o[i].key = key THEN P(key, val) ELSE v.o[i]])
  ELSE Obj(Append(v.o, P(key, val)))

-----------------------------------------------------------------------------
(* Numbers and the built-in conversions the validators call *)

DigitChars == <<"0", "1", "2", "3", "4", "5", "6", "7", "8", "9">>
IsDigit(c) == \E i \in DOMAIN DigitChars : DigitChars[i] = c
DigitVal(c) == (CHOOSE i \in DOMAIN DigitChars : DigitChars[i] = c) - 1
DigitChar(n) == DigitChars[n + 1]
WhiteSpace == {" ", "\t", "\n"}

RECURSIVE StripLeadingZeros(_)
StripLeadingZeros(ds) ==
  IF ds # <<>> /\ Head(ds) = 0 THEN StripLeadingZeros(Tail(ds)) ELSE ds
RECURSIVE StripTrailingZeros(_)
StripTrailingZeros(ds) ==
  IF ds # <<>> /\ ds[Len(ds)] = 0
  THEN StripTrailingZeros(SubSeq(ds, 1, Len(ds) - 1))
  ELSE ds
Zeros(n) == [i \in 1..n |-> 0]
\* the number  (-1)^neg * 0.ds * 10^point  (ds read as decimal digits)
Scaled(neg, ds, point) ==
  LET ip == IF point <= 0 THEN <<>>
            ELSE IF point >= Len(ds) THEN ds \o Zeros(point - Len(ds))
            ELSE SubSeq(ds, 1, point)
      fp == IF point <= 0 THEN Zeros(-point) \o ds
            ELSE IF point >= Len(ds) THEN <<>>
            ELSE SubSeq(ds, point + 1, Len(ds))
      nip == StripLeadingZeros(ip)
      nfp == StripTrailingZeros(fp)
  IN Number(neg /\ (nip # <<>> \/ nfp # <<>>), nip, nfp)

RECURSIVE DigitsLess(_, _)
DigitsLess(a, b) ==
  IF a = <<>> \/ b = <<>> THEN FALSE
  ELSE IF Head(a) # Head(b) THEN Head(a) < Head(b)
  ELSE DigitsLess(Tail(a), Tail(b))
RECURSIVE FractionLess(_, _)
FractionLess(a, b) ==
  IF b = <<>> THEN FALSE
  ELSE IF a = <<>> THEN TRUE
  ELSE IF Head(a) # Head(b) THEN Head(a) < Head(b)
  ELSE FractionLess(Tail(a), Tail(b))
MagnitudeLess(x, y) ==
  IF Len(x.ip) # Len(y.ip) THEN Len(x.ip) < Len(y.ip)
  ELSE IF x.ip # y.ip THEN DigitsLess(x.ip, y.ip)
  ELSE FractionLess(x.fp, y.fp)
\* x < y on numbers; every comparison with NaN is false
Less(x, y) ==
  /\ x.k = "number" /\ y.k = "number"
  /\ IF x.neg # y.neg THEN x.neg
     ELSE IF x.neg THEN MagnitudeLess(y, x)
     ELSE MagnitudeLess(x, y)
Greater(x, y) == Less(y, x)

\* Number.prototype.toString: plain decimal below 1e21 and from 1e-6 on,
\* exponent form outside
NumberToString(x) ==
  LET sign == IF x.neg THEN <<"-">> ELSE <<>>
      chars(ds) == [i \in DOMAIN ds |-> DigitChar(ds[i])]
      lead == Len(x.fp) - Len(StripLeadingZeros(x.fp))
      mant(ds) == IF Len(ds) = 1 THEN chars(ds)
                  ELSE <<DigitChar(ds[1])>> \o <<".">> \o chars(Tail(ds))
  IN IF Len(x.ip) > 21
     THEN sign \o mant(StripTrailingZeros(x.ip)) \o <<"e", "+">>
               \o chars(DigitsOf(Len(x.ip) - 1))
     ELSE IF x.ip = <<>> /\ x.fp # <<>> /\ lead >= 6
     THEN sign \o mant(StripLeadingZeros(x.fp)) \o <<"e", "-">>
               \o chars(DigitsOf(lead + 1))
     ELSE sign \o (IF x.ip = <<>> THEN <<"0">> ELSE chars(x.ip))
               \o (IF x.fp = <<>> THEN <<>> ELSE <<".">> \o chars(x.fp))

RECURSIVE Join(_)
RECURSIVE StringOf(_)
\* StringOf of a value handed to parseInt / parseFloat
StringOf(v) ==
  CASE v.k = "string" -> v.s
    [] v.k = "number" -> NumberToString(v)
    [] v.k = "boolean" -> IF v.b THEN <<"true">> ELSE <<"false">>
    [] v.k = "array" -> Join(v.a)
    [] v.k = "object" -> <<"[object Object]">>
    [] v.k = "date" -> <<"Thu Jan 01 1970">>
    [] OTHER -> <<v.k>>
Join(a) ==
  IF a = <<>> THEN <<>>
  ELSE LET h == IF Head(a).k \in {"null", "undefined"} THEN <<>> ELSE StringOf(Head(a))
       IN IF Len(a) = 1 THEN h ELSE h \o <<",">> \o Join(Tail(a))

RECURSIVE TrimStart(_)
TrimStart(s) == IF s # <<>> /\ Head(s) \in WhiteSpace THEN TrimStart(Tail(s)) ELSE s
RECURSIVE DigitPrefix(_)
DigitPrefix(s) ==
  IF s # <<>> /\ IsDigit(Head(s)) THEN <<DigitVal(Head(s))>> \o DigitPrefix(Tail(s)) ELSE <<>>
Signed(s) == s # <<>> /\ Head(s) \in {"+", "-"}
Unsigned(s) == IF Signed(s) THEN Tail(s) ELSE s
RECURSIVE DigitsToNat(_)
DigitsToNat(ds) == IF ds = <<>> THEN 0 ELSE DigitsToNat(SubSeq(ds, 1, Len(ds) - 1)) * 10 + ds[Len(ds)]

Negative(s) == s # <<>> /\ Head(s) = "-"
Drop(s, n) == SubSeq(s, n + 1, Len(s))
IntegerOf(neg, ds) == IF ds = <<>> THEN NaN ELSE Scaled(neg, ds, Len(ds))
IntegerIn(s) == IntegerOf(Negative(s), DigitPrefix(Unsigned(s)))
\* parseInt(value, 10): the longest prefix that is a signed run of digits
parseInt(value) == IntegerIn(TrimStart(StringOf(value)))

\* the exponent part at the head of s, 0 when there is none
ExponentOf(neg, ds) == IF neg THEN -DigitsToNat(ds) ELSE DigitsToNat(ds)
ExponentAfter(e) == ExponentOf(Negative(e), DigitPrefix(Unsigned(e)))
ExponentIn(s) == IF s # <<>> /\ Head(s) \in {"e", "E"} THEN ExponentAfter(Tail(s)) ELSE 0
DecimalOf(neg, ip, fp, rest) ==
  IF ip = <<>> /\ fp = <<>> THEN NaN
  ELSE Scaled(neg, ip \o fp, Len(ip) + ExponentIn(rest))
FractionOf(neg, ip, fp, rest) == DecimalOf(neg, ip, fp, Drop(rest, Len(fp) + 1))
FractionAfter(neg, ip, rest) ==
  IF rest # <<>> /\ Head(rest) = "."
  THEN FractionOf(neg, ip, DigitPrefix(Tail(rest)), rest)
  ELSE DecimalOf(neg, ip, <<>>, rest)
MantissaOf(neg, u, ip) == FractionAfter(neg, ip, Drop(u, Len(ip)))
MantissaIn(neg, u) == MantissaOf(neg, u, DigitPrefix(u))
DecimalIn(s) == MantissaIn(Negative(s), Unsigned(s))
\* parseFloat(value): the longest prefix that is a decimal literal
parseFloat(value) == DecimalIn(TrimStart(StringOf(value)))

\* x % 1 !== 0
HasFraction(x) == x.k # "number" \/ x.fp # <<>>

-----------------------------------------------------------------------------
(* Regular expressions, as RegExp.prototype.test runs them: a pattern is a  *)
(* tree, Match gives every way it can match at a position                   *)

Chr(set) == [op |-> "chr", set |-> set]
Cat(parts) == [op |-> "cat", parts |-> parts]
Alt(parts) == [op |-> "alt", parts |-> parts]
\* {min,max}; open: no upper limit
Rep(of, min, max) == [op |-> "rep", of |-> of, min |-> min, max |-> max, open |-> FALSE]
Plus(of) == [op |-> "rep", of |-> of, min |-> 1, max |-> 1, open |-> TRUE]
Grp(n, of) == [op |-> "grp", n |-> n, of |-> of]
BackRef(n) == [op |-> "ref", n |-> n]
Look(of, positive) == [op |-> "look", of |-> of, positive |-> positive]
WordBoundary == [op |-> "b"]
EndOfInput == [op |-> "end"]
Opt(of) == Rep(of, 0, 1)
Lit(c) == Chr({c})

UpperCase == <<"A", "B", "C", "D", "E", "F", "G", "H", "I", "J", "K", "L", "M",
               "N", "O", "P", "Q", "R", "S", "T", "U", "V", "W", "X", "Y", "Z">>
LowerCase == <<"a", "b", "c", "d", "e", "f", "g", "h", "i", "j", "k", "l", "m",
               "n", "o", "p", "q", "r", "s", "t", "u", "v", "w", "x", "y", "z">>
\* the /i flag: patterns are written in lower case, input is folded
Fold(c) ==
  IF \E i \in DOMAIN UpperCase : UpperCase[i] = c
  THEN LowerCase[CHOOSE i \in DOMAIN UpperCase : UpperCase[i] = c]
  ELSE c
DigitSet == {DigitChars[i] : i \in DOMAIN DigitChars}
HexSet == DigitSet \cup {"a", "b", "c", "d", "e", "f"}
WordSet == DigitSet \cup {LowerCase[i] : i \in DOMAIN LowerCase} \cup {"_"}
Digit == Chr(DigitSet)
Range(a, b) == Chr({DigitChar(n) : n \in a..b})
IsWordAt(s, i) == i \in DOMAIN s /\ Fold(s[i]) \in WordSet

RECURSIVE Match(_, _, _, _)
RECURSIVE MatchCat(_, _, _, _)
RECURSIVE MatchRep(_, _, _, _, _, _, _)
\* the set of <<next position, captures>> reached by matching re at s[i]
Match(re, s, i, caps) ==
  CASE re.op = "chr" ->
         IF i \in DOMAIN s /\ Fold(s[i]) \in re.set THEN {<<i + 1, caps>>} ELSE {}
    [] re.op = "cat" -> MatchCat(re.parts, s, i, caps)
    [] re.op = "alt" ->
         UNION {Match(re.parts[j], s, i, caps) : j \in DOMAIN re.parts}
    [] re.op = "rep" -> MatchRep(re.of, re.min, re.max, re.open, s, i, caps)
    [] re.op = "grp" ->
         {<<r[1], [g \in DOMAIN r[2] \cup {re.n} |->
                     IF g = re.n THEN SubSeq(s, i, r[1] - 1) ELSE r[2][g]]>>
            : r \in Match(re.of, s, i, caps)}
    [] re.op = "ref" ->
         LET c == IF re.n \in DOMAIN caps THEN caps[re.n] ELSE <<>>
         IN IF i + Len(c) - 1 <= Len(s) /\ SubSeq(s, i, i + Len(c) - 1) = c
            THEN {<<i + Len(c), caps>>}
            ELSE {}
    [] re.op = "look" ->
         IF (Match(re.of, s, i, caps) # {}) = re.positive THEN {<<i, caps>>} ELSE {}
    [] re.op = "b" ->
         IF IsWordAt(s, i - 1) # IsWordAt(s, i) THEN {<<i, caps>>} ELSE {}
    [] re.op = "end" -> IF i = Len(s) + 1 THEN {<<i, caps>>} ELSE {}
MatchCat(parts, s, i, caps) ==
  IF parts = <<>> THEN {<<i, caps>>}
  ELSE UNION {MatchCat(Tail(parts), s, r[1], r[2]) : r \in Match(Head(parts), s, i, caps)}
MatchRep(of, min, max, open, s, i, caps) ==
  (IF min = 0 THEN {<<i, caps>>} ELSE {})
  \cup (IF max = 0 /\ ~open THEN {}
        ELSE UNION {MatchRep(of, IF min = 0 THEN 0 ELSE min - 1,
                             IF max = 0 THEN 0 ELSE max - 1, open, s, r[1], r[2])
                      : r \in {q \in Match(of, s, i, caps) : min > 0 \/ q[1] > i}})
\* /^re/i.test(s); the patterns below end in $
Test(re, s) == Match(re, s, 1, <<>>) # {}

Hex(n) == Rep(Chr(HexSet), n, n)
Sep == Chr({"-", " "})
DigitOrX == Chr(DigitSet \cup {"x"})
\* /^[0-9a-f]{8}-[0-9a-f]{4}-[0-9a-f]{4}-[0-9a-f]{4}-[0-9a-f]{12}$/i
UUID_RE ==
  Cat(<<Hex(8), Lit("-"), Hex(4), Lit("-"), Hex(4), Lit("-"), Hex(4), Lit("-"), Hex(12),
        EndOfInput>>)
\* /^(?=[0-9X]{10}$|(?=(?:[0-9]+[- ]){3})[- 0-9X]{13}$|97[89][0-9]{10}$
\*   |(?=(?:[0-9]+[- ]){4})[- 0-9]{17}$)
\*  (?:97[89][- ]?)?[0-9]{1,5}[- ]?[0-9]+[- ]?[0-9]+[- ]?[0-9X]$/i
ISBN_RE ==
  LET groups(n) == Look(Rep(Cat(<<Plus(Digit), Sep>>), n, n), TRUE)
      prefix == Cat(<<Lit("9"), Lit("7"), Range(8, 9)>>)
  IN Cat(<<Look(Alt(<<Cat(<<Rep(DigitOrX, 10, 10), EndOfInput>>),
                      Cat(<<groups(3), Rep(Chr(DigitSet \cup {"-", " ", "x"}), 13, 13),
                            EndOfInput>>),
                      Cat(<<prefix, Rep(Digit, 10, 10), EndOfInput>>),
                      Cat(<<groups(4), Rep(Chr(DigitSet \cup {"-", " "}), 17, 17),
                            EndOfInput>>)>>), TRUE),
           Opt(Cat(<<prefix, Opt(Sep)>>)), Rep(Digit, 1, 5), Opt(Sep), Plus(Digit),
           Opt(Sep), Plus(Digit), Opt(Sep), DigitOrX, EndOfInput>>)
\* the ISO 8601 pattern of validateStringDateTime; \3 and \17 are its only
\* back-references, so only groups 3 and 17 capture
DATE_TIME_RE ==
  LET sign == Chr({"+", "-"})
      frac == Cat(<<Chr({".", ","}), Plus(Digit)>>)
      year == Cat(<<Opt(sign), Rep(Digit, 4, 4),
                    Look(Cat(<<Rep(Digit, 2, 2), WordBoundary>>), FALSE)>>)
      day == Alt(<<Cat(<<Range(1, 2), Digit>>), Cat(<<Lit("0"), Range(1, 9)>>),
                   Cat(<<Lit("3"), Range(0, 1)>>)>>)
      month == Alt(<<Cat(<<Lit("0"), Range(1, 9)>>), Cat(<<Lit("1"), Range(0, 2)>>)>>)
      week == Alt(<<Cat(<<Range(0, 4), Digit>>), Cat(<<Lit("5"), Range(0, 2)>>)>>)
      ordinal == Alt(<<Cat(<<Lit("0"), Lit("0"), Range(1, 9)>>),
                       Cat(<<Lit("0"), Range(1, 9), Digit>>),
                       Cat(<<Range(1, 2), Digit, Digit>>),
                       Cat(<<Lit("3"), Alt(<<Cat(<<Range(0, 5), Digit>>),
                                             Cat(<<Lit("6"), Range(1, 6)>>)>>)>>)>>)
      date == Alt(<<Cat(<<month, Opt(Cat(<<BackRef(3), day>>))>>),
                    Cat(<<Lit("w"), week, Opt(Cat(<<Opt(Lit("-")), Range(1, 7)>>))>>),
                    ordinal>>)
      hour == Alt(<<Cat(<<Range(0, 1), Digit>>), Cat(<<Lit("2"), Range(0, 3)>>)>>)
      sixty == Cat(<<Range(0, 5), Digit>>)
      hm == Alt(<<Cat(<<hour, Opt(Cat(<<Grp(17, Opt(Lit(":"))), sixty>>))>>),
                  Cat(<<Lit("2"), Lit("4"), Opt(Lit(":")), Lit("0"), Lit("0")>>)>>)
      time == Cat(<<hm, Opt(Cat(<<frac, Look(Lit(":"), FALSE)>>))>>)
      seconds == Cat(<<BackRef(17), sixty, Opt(frac)>>)
      zone == Alt(<<Lit("z"), Cat(<<sign, hour, Opt(Lit(":")), Opt(sixty)>>)>>)
      clock == Cat(<<Chr({"t"} \cup WhiteSpace), Opt(time), Opt(seconds), Opt(zone)>>)
  IN Cat(<<year, Opt(Cat(<<Grp(3, Opt(Lit("-"))), date, Opt(clock)>>)), EndOfInput>>)

-----------------------------------------------------------------------------
(* Errors.  An error is a record of the fields its constructors assign;     *)
(* ctor is the constructor it was made by; a message is the sequence of the *)
(* parts of its template                                                    *)

CODES ==
  [ROUTER |-> Num(1), ROUTE |-> Num(2), ROUTE_NOT_IMPLEMENTED |-> Num(3),
   VALIDATION_SOURCE |-> Num(100), VALIDATION_REQUIRED |-> Num(101),
   VALIDATION_TYPE |-> Num(102), VALIDATION_FORMAT |-> Num(103)]
\* CODES.<key>: a key the table does not have reads as undefined
CodeOf(key) == IF key \in DOMAIN CODES THEN CODES[key] ELSE Undefined
\* err.<field> of any thrown object
Prop(err, field) == IF field \in DOMAIN err THEN err[field] ELSE Undefined

BaseError(ctor, message, code) ==
  [ctor |-> ctor, name |-> S(ctor), code |-> code, message |-> message]

RouterError(message) == BaseError("RouterError", <<message>>, CodeOf("ROUTER"))

RouteError(method, route, message) ==
  [ctor |-> "RouteError", name |-> S("RouteError"), code |-> CodeOf("ROUTE"),
   message |-> <<S("["), method, S(" "), route, S("] "), message>>,
   method |-> method, route |-> route]

\* a fallback that reports the code of a RouteError
RouteNotImplementedError_AsRoute(method, route) ==
  [ctor |-> "RouteNotImplementedError", name |-> S("RouteNotImplementedError"),
   code |-> CodeOf("ROUTE"),
   message |-> <<S("["), method, S(" "), route, S("] Route not implemented.")>>,
   method |-> method, route |-> route]
RouteNotImplementedError(method, route) ==
  [ctor |-> "RouteNotImplementedError", name |-> S("RouteNotImplementedError"),
   code |-> CodeOf("ROUTE_NOT_IMPLEMENTED"),
   message |-> <<S("["), method, S(" "), route, S("] Route not implemented.")>>,
   method |-> method, route |-> route]

\* a wrapper that does not take over the code of its cause
ParameterValidationError_Uncoded(parameterDefinition, parameterValue, cause) ==
  [ctor |-> "ParameterValidationError", name |-> S("ParameterValidationError"),
   code |-> Undefined, message |-> Prop(cause, "message"),
   parameterDefinition |-> parameterDefinition, parameterValue |-> parameterValue,
   cause |-> cause]
ParameterValidationError(parameterDefinition, parameterValue, cause) ==
  [ctor |-> "ParameterValidationError", name |-> S("ParameterValidationError"),
   code |-> Prop(cause, "code"), message |-> Prop(cause, "message"),
   parameterDefinition |-> parameterDefinition, parameterValue |-> parameterValue,
   cause |-> cause]

\* ValidationError(message, code, name, type, format, value): the base
\* constructor first names the error after its constructor, then name is
\* overwritten by the argument
ValidationError(ctor, message, code, name, type, format, value) ==
  [ctor |-> ctor, code |-> code, message |-> message,
   name |-> name, type |-> type, format |-> format, value |-> value]

\* each of the five passes (message, code, value) on: value arrives in the
\* name parameter, and type, format and value are not passed
\* an unknown source reported under the code of a Required error
SourceValidationError_AsRequired(name, type, format, value, message) ==
  ValidationError("SourceValidationError", <<S("Name: '"), name, S("'. "), message>>,
                  CodeOf("VALIDATION_REQUIRED"), value, Undefined, Undefined, Undefined)

SourceValidationError(name, type, format, value, message) ==
  ValidationError("SourceValidationError", <<S("Name: '"), name, S("'. "), message>>,
                  CodeOf("VALIDATION_SOURCE"), value, Undefined, Undefined, Undefined)

RequiredValidationError(name, type, format, value, message) ==
  ValidationError("RequiredValidationError",
                  <<S("Name: '"), name, S("'. Value is required.")>>,
                  CodeOf("VALIDATION_REQUIRED"), value, Undefined, Undefined, Undefined)

\* a null reported as a Type error
NullableValidationError_AsType(name, type, format, value, message) ==
  ValidationError("TypeValidationError",
                  <<S("Name: '"), name, S("'. Value is nullable.")>>,
                  CodeOf("VALIDATION_TYPE"), value, Undefined, Undefined, Undefined)

NullableValidationError(name, type, format, value, message) ==
  ValidationError("NullableValidationError",
                  <<S("Name: '"), name, S("'. Value is nullable.")>>,
                  CodeOf("VALIDATION_NULLABLE"), value, Undefined, Undefined, Undefined)

TypeValidationError(name, type, format, value, message) ==
  ValidationError("TypeValidationError",
                  <<S("Name: '"), name, S("'. Expected type '"), type, S("'. Value: '"),
                    value, S("'. "), message>>,
                  CodeOf("VALIDATION_TYPE"), value, Undefined, Undefined, Undefined)

FormatValidationError(name, type, format, value, message) ==
  ValidationError("FormatValidationError",
                  <<S("Name: '"), name, S("'. Type: '"), type, S("("), format,
                    S(")'. Value: '"), value, S("'. "), message>>,
                  CodeOf("VALIDATION_FORMAT"), value, Undefined, Undefined, Undefined)

\* what the engine throws on reading a property of null or undefined
TypeError(message) == [ctor |-> "TypeError", name |-> S("TypeError"), message |-> <<message>>]
\* what the engine throws when the call stack is exhausted
RangeError(message) == [ctor |-> "RangeError", name |-> S("RangeError"), message |-> <<message>>]

\* the outcome of a call: a value returned or an error thrown, with the
\* deepest nesting of validateObject / validateArray frames the call reached
Return(v) == [t |-> "return", v |-> v, depth |-> 0]
Throw(e) == [t |-> "throw", e |-> e, depth |-> 0]
Deepen(r, d) == [r EXCEPT !.depth = IF @ < d THEN d ELSE @]
Returned(r) == r.t = "return"
Thrown(r) == r.t = "throw"

-----------------------------------------------------------------------------
(* State *)

VARIABLES
  pc,                   \* where the run is: "start", "loaded", "failed", "validated", ...
  document,             \* the parsed YAML document handed to readSpec
  refOptions,           \* options.refOptions
  spec,                 \* readSpec's result {resolved, refs}, Undefined before
  loadError,            \* what module.exports threw, Undefined if nothing
  exported,             \* what module.exports returned, Undefined if nothing
  parameterDefinition,  \* the parameter being validated
  parameterValue,       \* the raw value supplied for it
  outcome,              \* the outcome of validateParameter
  again,                \* the outcome of validating outcome's value once more
  made,                 \* an error built directly from its constructor, with the arguments
  requests,             \* the requests received by the router, each with its own ctx
  routerOptions,        \* options.routerOptions
  router                \* what calling the router factory left, Undefined before

vars ==
  <<pc, document, refOptions, spec, loadError, exported, parameterDefinition,
    parameterValue, outcome, again, made, requests, routerOptions, router>>

\* the depth of the call stack the engine allows the validators
MaxStack == 6

-----------------------------------------------------------------------------
(* lib/utils: helpers of the validators *)

Nullish(v) == v.k \in {"undefined", "null"}
\* the members every value that is not nullish inherits from Object.prototype
ObjectPrototype ==
  {"constructor", "toString", "toLocaleString", "valueOf", "hasOwnProperty",
   "isPrototypeOf", "propertyIsEnumerable"}
Inherited(key) == [k |-> "function", name |-> key]
\* v[key] of a value that is not nullish: an own property, or an inherited one
Member(v, key) ==
  CASE v.k = "object" /\ HasOwn(v, key) -> Get(v, key)
    [] v.k \notin {"undefined", "null"} /\ key \in ObjectPrototype -> Inherited(key)
    [] v.k = "object" -> Get(v, key)
    [] v.k = "array" /\ key = "length" -> Num(Len(v.a))
    [] v.k = "string" /\ key = "length" -> Num(Len(v.s))
    [] OTHER -> Undefined
\* an includes that finds nothing
Includes_Never(collection, key) == FALSE
\* _.includes(collection, S(key)) for an array; other collections hold nothing
Includes(collection, key) ==
  collection.k = "array" /\ \E i \in DOMAIN collection.a : collection.a[i] = S(key)
\* the own enumerable properties _.forOwn visits, in order
OwnEntries(v) == IF v.k = "object" THEN v.o ELSE <<>>

\* parseBoolean: a boolean is itself, "true"/"false" in any case the boolean,
\* anything else undefined
parseBoolean(value) ==
  LET folded == [i \in DOMAIN value.s |-> Fold(value.s[i])]
  IN CASE value.k = "boolean" -> value
       [] value.k = "string" /\ folded = <<"t", "r", "u", "e">> -> Bool(TRUE)
       [] value.k = "string" /\ folded = <<"f", "a", "l", "s", "e">> -> Bool(FALSE)
       [] OTHER -> Undefined

\* pathFromPtr('#/a/b') = ['a', 'b']
pathFromPtr(ptr) ==
  LET IsSeg(c) == c \notin {"#", "/"}
  IN SelectSeq(ptr.s, IsSeg)
RECURSIVE Walk(_, _)
Walk(object, path) ==
  IF path = <<>> THEN object
  ELSE IF Nullish(object) THEN Undefined
  ELSE Walk(Member(object, Head(path)), Tail(path))
\* _.get(object, path.join('.')); the empty path names no property
GetPath(object, path) == IF path = <<>> THEN Undefined ELSE Walk(object, path)
\* spec.refs[key]
RefAt(key) == IF key \in DOMAIN spec.refs THEN spec.refs[key] ELSE Undefined

-----------------------------------------------------------------------------
(* Loading: lib/utils readSpec / resolveRefs on top of json-refs *)

RECURSIVE PtrChunks(_)
PtrChunks(path) == IF path = <<>> THEN <<>> ELSE <<"/", Head(path)>> \o PtrChunks(Tail(path))
\* the JSON pointer string of a location
Ptr(path) == Str(<<"#">> \o PtrChunks(path))
IsRef(node) == node.k = "object" /\ HasOwn(node, "$ref") /\ isString(Get(node, "$ref"))
IsPrefix(a, b) == Len(a) <= Len(b) /\ SubSeq(b, 1, Len(a)) = a

RECURSIVE FindRefs(_, _)
RECURSIVE FindRefsIn(_, _, _)
\* json-refs findRefs: the '$ref' objects of the document in document order,
\* each with its location and the location it points to
FindRefs(node, at) ==
  IF IsRef(node) THEN <<[at |-> at, uri |-> Get(node, "$ref"), to |-> pathFromPtr(Get(node, "$ref"))]>>
  ELSE FindRefsIn(node, at, 1)
FindRefsIn(node, at, i) ==
  CASE node.k = "object" /\ i <= Len(node.o) ->
         FindRefs(node.o[i].val, Append(at, node.o[i].key)) \o FindRefsIn(node, at, i + 1)
    [] node.k = "array" /\ i <= Len(node.a) ->
         FindRefs(node.a[i], Append(at, DigitChar(i - 1))) \o FindRefsIn(node, at, i + 1)
    [] OTHER -> <<>>

\* document[path], array elements by index
RECURSIVE At(_, _)
At(node, path) ==
  IF path = <<>> THEN node
  ELSE CASE node.k = "object" -> At(Get(node, Head(path)), Tail(path))
         [] node.k = "array" /\ IsDigit(Head(path)) /\ DigitVal(Head(path)) < Len(node.a) ->
              At(node.a[DigitVal(Head(path)) + 1], Tail(path))
         [] OTHER -> Undefined

RECURSIVE ReachedFrom(_, _)
\* the locations reached from the locations in seen by following the
\* references found below them
ReachedFrom(found, seen) ==
  LET more == seen \cup {found[i].to : i \in {j \in DOMAIN found :
                           \E t \in seen : IsPrefix(t, found[j].at)}}
  IN IF more = seen THEN seen ELSE ReachedFrom(found, more)
Missing(doc, ref) == isUndefined(At(doc, ref.to))
\* a reference is circular when resolving its target leads back to it
Circular(found, ref) == \E t \in ReachedFrom(found, {ref.to}) : IsPrefix(t, ref.at)

RECURSIVE Dereference(_, _, _, _)
\* the resolved document: every gathered reference that is neither missing nor
\* circular is replaced by its (resolved) target
Dereference(doc, found, node, at) ==
  CASE IsRef(node) ->
         LET ref == [at |-> at, uri |-> Get(node, "$ref"), to |-> pathFromPtr(Get(node, "$ref"))]
             gathered == \E i \in DOMAIN found : found[i].at = at
         IN IF ~gathered \/ Missing(doc, ref) \/ Circular(found, ref) THEN node
            ELSE Dereference(doc, found, At(doc, ref.to), ref.to)
    [] node.k = "object" ->
         Obj([i \in DOMAIN node.o |->
                P(node.o[i].key, Dereference(doc, found, node.o[i].val, Append(at, node.o[i].key)))])
    [] node.k = "array" ->
         Arr([i \in DOMAIN node.a |->
                Dereference(doc, found, node.a[i], Append(at, DigitChar(i - 1)))])
    [] OTHER -> node

MissingLocation(uri) == Str(<<"JSON Pointer points to missing location: ">> \o uri.s)
\* the metadata json-refs keeps for one reference
RefEntry(doc, found, ref) ==
  Obj(<<P("uri", ref.uri), P("circular", Bool(Circular(found, ref)))>>
      \o (IF Missing(doc, ref)
          THEN <<P("error", MissingLocation(ref.uri)), P("missing", Bool(TRUE))>>
          ELSE <<>>))
\* {resolved, refs} for the references found; refs is keyed by the pointer of
\* each reference's location, order keeps the keys in insertion order
ResolvedWith(doc, found) ==
  [resolved |-> Dereference(doc, found, doc, <<>>),
   order |-> [i \in DOMAIN found |-> Ptr(found[i].at).s],
   refs |-> [key \in {Ptr(found[i].at).s : i \in DOMAIN found} |->
               RefEntry(doc, found, found[CHOOSE i \in DOMAIN found : Ptr(found[i].at).s = key])]]
\* jsonRefs.resolveRefs(doc, options).  A filter that admits no reference type
\* gathers no references and leaves the document as it is
jsonRefsResolveRefs(doc, options) ==
  ResolvedWith(doc, IF Member(options, "filter") = Arr(<<>>) THEN <<>> ELSE FindRefs(doc, <<>>))

\* _(refs).values().map('error').compact().value()
ErrorsOf(result) ==
  LET IsError(key) == Truthy(Member(result.refs[key], "error"))
      Error(key) == Member(result.refs[key], "error")
  IN [i \in DOMAIN SelectSeq(result.order, IsError) |-> Error(SelectSeq(result.order, IsError)[i])]
\* the callback of resolveRefs (lib/utils): Error(errs) when any reference
\* carries an error, the json-refs result otherwise
\* a callback that hands the result on without looking at the errors
Resolved_Unchecked(result, errs) == Return(result)
Resolved(result, errs) ==
  IF Len(errs) > 0
  THEN Throw([ctor |-> "Error", name |-> S("Error"), message |-> errs])
  ELSE Return(result)
WithErrors(result) == Resolved(result, ErrorsOf(result))
resolveRefs(doc, options) ==
  WithErrors(jsonRefsResolveRefs(doc, IF Truthy(options) THEN options ELSE Obj(<<>>)))

\* readSpec: the parsed document, resolved; a failure of resolveRefs is thrown on
readSpec(doc, options) == resolveRefs(doc, options)

\* what module.exports makes of the specification it has read
Exports(read) ==
  IF Thrown(read) THEN read
  ELSE Return([spec |-> read.v.resolved, refs |-> read.v.refs, router |-> "createRouter"])
\* module.exports = function (uri, options): what it returns or throws
koaspec(doc, options) == Exports(readSpec(doc, Member(options, "refOptions")))

-----------------------------------------------------------------------------
(* createRequestValidator: the validators *)

INTEGER_INT32_MAX_VALUE == Number(FALSE, <<2, 1, 4, 7, 4, 8, 3, 6, 4, 7>>, <<>>)
INTEGER_INT32_MIN_VALUE == Number(TRUE, <<2, 1, 4, 7, 4, 8, 3, 6, 4, 8>>, <<>>)
\* Number.MAX_SAFE_INTEGER = 2^53 - 1 and its negative
INTEGER_INT64_MAX_VALUE ==
  Number(FALSE, <<9, 0, 0, 7, 1, 9, 9, 2, 5, 4, 7, 4, 0, 9, 9, 1>>, <<>>)
INTEGER_INT64_MIN_VALUE ==
  Number(TRUE, <<9, 0, 0, 7, 1, 9, 9, 2, 5, 4, 7, 4, 0, 9, 9, 1>>, <<>>)
\* 3.4028235E38
NUMBER_FLOAT_MAX_VALUE == Number(FALSE, <<3, 4, 0, 2, 8, 2, 3, 5>> \o Zeros(31), <<>>)
NUMBER_FLOAT_MIN_VALUE == Number(TRUE, <<3, 4, 0, 2, 8, 2, 3, 5>> \o Zeros(31), <<>>)

\* a validateBoolean that returns the opposite of what it parsed
validateBoolean_Negated(name, type, format, value) ==
  IF ~isBoolean(parseBoolean(value))
  THEN Throw(TypeValidationError(name, type, format, value, S("Not a 'boolean'.")))
  ELSE Return(Bool(~parseBoolean(value).b))

validateBoolean(name, type, format, value) ==
  LET actualValue == parseBoolean(value)
  IN IF ~isBoolean(actualValue)
     THEN Throw(TypeValidationError(name, type, format, value, S("Not a 'boolean'.")))
     ELSE Return(actualValue)

validateIntegerInt32(name, type, format, value, actualValue) ==
  IF Greater(actualValue, INTEGER_INT32_MAX_VALUE)
  THEN Throw(FormatValidationError(name, type, format, value, S("Maximum integer (int32) value")))
  ELSE IF Less(actualValue, INTEGER_INT32_MIN_VALUE)
  THEN Throw(FormatValidationError(name, type, format, value, S("Minimum integer (int32) value")))
  ELSE Return(actualValue)

validateIntegerInt64(name, type, format, value, actualValue) ==
  IF Greater(actualValue, INTEGER_INT64_MAX_VALUE)
  THEN Throw(FormatValidationError(name, type, format, value, S("Maximum integer (int64) value")))
  ELSE IF Less(actualValue, INTEGER_INT64_MIN_VALUE)
  THEN Throw(FormatValidationError(name, type, format, value, S("Minimum integer (int64) value")))
  ELSE Return(actualValue)

IntegerFormat(name, type, format, value, actualValue) ==
  IF isNaN(actualValue)
  THEN Throw(TypeValidationError(name, type, format, value, S("Not an 'integer'.")))
  ELSE IF HasFraction(parseFloat(value))
  THEN Throw(TypeValidationError(name, type, format, value, S("Not an 'integer'.")))
  ELSE CASE format = S("int32") -> validateIntegerInt32(name, type, format, value, actualValue)
         [] format = S("int64") -> validateIntegerInt64(name, type, format, value, actualValue)
         [] OTHER -> Throw(FormatValidationError(name, type, format, value, S("Unknown format")))
\* actualValue = parseInt(value, 10)
validateInteger(name, type, format, value) ==
  IntegerFormat(name, type, format, value, parseInt(value))

validateNumberFloat(name, type, format, value, actualValue) ==
  IF Greater(actualValue, NUMBER_FLOAT_MAX_VALUE)
  THEN Throw(FormatValidationError(name, type, format, value, S("Maximum number (float) value")))
  ELSE IF Less(actualValue, NUMBER_FLOAT_MIN_VALUE)
  THEN Throw(FormatValidationError(name, type, format, value, S("Minimum number (float) value")))
  ELSE Return(actualValue)

validateNumberDouble(name, type, format, value, actualValue) == Return(actualValue)

NumberFormat(name, type, format, value, actualValue) ==
  IF isNaN(actualValue)
  THEN Throw(TypeValidationError(name, type, format, value, S("Not a 'number'.")))
  ELSE CASE format = S("float") -> validateNumberFloat(name, type, format, value, actualValue)
         [] format = S("double") -> validateNumberDouble(name, type, format, value, actualValue)
         [] OTHER -> Throw(FormatValidationError(name, type, format, value, S("Unknown format")))
\* actualValue = parseFloat(value)
validateNumber(name, type, format, value) ==
  NumberFormat(name, type, format, value, parseFloat(value))

validateStringUUID(name, type, format, value, actualValue) ==
  IF ~Test(UUID_RE, value.s)
  THEN Throw(FormatValidationError(name, type, format, value, S("Not a 'uuid'.")))
  ELSE Return(actualValue)

validateStringISBN(name, type, format, value, actualValue) ==
  IF ~Test(ISBN_RE, value.s)
  THEN Throw(FormatValidationError(name, type, format, value, S("Not a 'isbn'.")))
  ELSE Return(actualValue)

\* the result is new Date(actualValue): a Date object, not a string
validateStringDateTime(name, type, format, value, actualValue) ==
  IF ~Test(DATE_TIME_RE, value.s)
  THEN Throw(FormatValidationError(name, type, format, value, S("Not a 'date-time' (ISO 8601).")))
  ELSE Return(DateOf(actualValue.s))

\* a validateString that takes a string of any format as it is
validateString_AnyFormat(name, type, format, value) ==
  IF ~isString(value)
  THEN Throw(TypeValidationError(name, type, format, value, S("Not a 'string'.")))
  ELSE Return(value)

validateString(name, type, format, value) ==
  LET actualValue == value
  IN IF ~isString(actualValue)
     THEN Throw(TypeValidationError(name, type, format, value, S("Not a 'string'.")))
     ELSE CASE isUndefined(format) -> Return(actualValue)
            [] format = S("uuid") -> validateStringUUID(name, type, format, value, actualValue)
            [] format = S("isbn") -> validateStringISBN(name, type, format, value, actualValue)
            [] format = S("date-time") ->
                 validateStringDateTime(name, type, format, value, actualValue)
            [] OTHER -> Throw(FormatValidationError(name, type, format, value, S("Unknown format")))

RECURSIVE validateValue(_, _, _, _, _, _, _, _, _)
RECURSIVE validateValueType(_, _, _, _, _, _, _, _, _)
RECURSIVE validateObject(_, _, _, _, _, _, _)
RECURSIVE validateArray(_, _, _, _, _, _)
RECURSIVE ObjectProperties(_, _, _, _, _)
RECURSIVE ArrayItems(_, _, _, _, _)

Skip == [t |-> "skip", depth |-> 0]
NoProperty(of) == Throw(TypeError(S("Cannot read property of " \o of.k)))

\* validateObject, lines 303-307: a property declared as a '$ref' marker is
\* looked up in spec.refs under '<$ref>/properties/<propertyName>'
PropertyInfo(declared, propertyName) ==
  IF Nullish(declared) THEN NoProperty(declared)
  ELSE LET refName == Member(declared, "$ref")
           ref == RefAt(StringOf(refName) \o <<"/", "properties", "/", propertyName>>)
       IN IF ~Truthy(refName) THEN Return(declared)
          ELSE IF Nullish(ref) THEN NoProperty(ref)
          ELSE Return(GetPath(spec.resolved, pathFromPtr(Member(ref, "uri"))))

\* a property that never has a default
DefaultOf_None(propertyInfo) == Undefined
\* propertyInfo.default
DefaultOf(propertyInfo) == Member(propertyInfo, "default")

\* validateObject, lines 309-326: the body of the loop once propertyInfo is
\* known.  A required property that is absent fails; an absent property that
\* is not required is validated as its default, or left out (Skip is the early
\* `return`) when there is none; a property that is present is validated as it is
Property(propertyName, propertyInfo, required, value, d) ==
  IF Nullish(value) THEN NoProperty(value)
  ELSE IF Nullish(propertyInfo) THEN NoProperty(propertyInfo)
  ELSE IF Includes(required, propertyName) /\ isUndefined(Member(value, propertyName))
  THEN Throw(RequiredValidationError(S(propertyName), Member(propertyInfo, "type"),
                                     Member(propertyInfo, "format"), Undefined, S("")))
  ELSE IF /\ ~Includes(required, propertyName)
          /\ isUndefined(Member(value, propertyName))
          /\ isUndefined(DefaultOf(propertyInfo))
  THEN Skip
  ELSE validateValue(S(propertyName), Member(propertyInfo, "type"),
                     Member(propertyInfo, "format"), Member(propertyInfo, "x-nullable"),
                     Member(propertyInfo, "items"), Member(propertyInfo, "properties"),
                     Member(propertyInfo, "required"),
                     IF isUndefined(Member(value, propertyName))
                     THEN DefaultOf(propertyInfo)
                     ELSE Member(value, propertyName),
                     d)

\* one turn of the loop: propertyInfo is found, then the body runs
PropertyWith(propertyName, info, required, value, d) ==
  IF Thrown(info) THEN info ELSE Property(propertyName, info.v, required, value, d)
PropertyOf(entry, required, value, d) ==
  PropertyWith(entry.key, PropertyInfo(entry.val, entry.key), required, value, d)
\* the loop goes on after a turn with outcome r, unless the turn threw
PropertyDone(entries, required, value, actualValue, d, r) ==
  IF r.t = "throw" THEN r
  ELSE Deepen(ObjectProperties(Tail(entries), required, value,
                               IF r.t = "skip" THEN actualValue
                               ELSE Put(actualValue, Head(entries).key, r.v), d),
              r.depth)
\* validateObject, lines 302-328: _.forOwn over the declared properties
ObjectProperties(entries, required, value, actualValue, d) ==
  IF entries = <<>> THEN Return(actualValue)
  ELSE PropertyDone(entries, required, value, actualValue, d,
                    PropertyOf(Head(entries), required, value, d))

validateObject(name, type, format, properties, required, value, d) ==
  IF d > MaxStack THEN Throw(RangeError(S("Maximum call stack size exceeded")))
  ELSE IF ~Truthy(properties)
  THEN Deepen(Throw(TypeValidationError(name, type, format, value, S("Properties not found."))), d)
  ELSE Deepen(ObjectProperties(OwnEntries(properties), required, value, Obj(<<>>), d), d)

\* validateArray, lines 285-289: items declared as a '$ref' marker
ItemsInfo(items, name) ==
  LET refName == Member(items, "$ref")
      ref == RefAt(StringOf(refName) \o <<"/", "properties", "/">> \o StringOf(name)
                   \o <<"/", "items">>)
  IN IF ~Truthy(refName) THEN Return(items)
     ELSE IF Nullish(ref) THEN NoProperty(ref)
     ELSE Return(GetPath(spec.resolved, pathFromPtr(Member(ref, "uri"))))

\* a map that collects the validated elements last first
Collected_Reversed(actualValue, validated) == <<validated>> \o actualValue
\* _.map collects the validated elements in the order of the input
Collected(actualValue, validated) == Append(actualValue, validated)
\* the map goes on after an element with outcome r, unless it threw
ItemDone(name, items, values, actualValue, d, r) ==
  IF Thrown(r) THEN r
  ELSE Deepen(ArrayItems(name, items, Tail(values), Collected(actualValue, r.v), d), r.depth)
\* validateArray, lines 291-293: _.map over the values
ArrayItems(name, items, values, actualValue, d) ==
  IF values = <<>> THEN Return(Arr(actualValue))
  ELSE ItemDone(name, items, values, actualValue, d,
                IF Nullish(items) THEN NoProperty(items)
                ELSE validateValueType(name, Member(items, "type"), Member(items, "format"),
                                       Member(items, "x-nullable"), Undefined,
                                       Member(items, "properties"),
                                       Member(items, "required"), Head(values), d))

\* a validateArray that hands back the sequence it was given
validateArray_InPlace(name, type, format, items, values, d) == Return(values)

ArrayWith(name, info, values, d) ==
  IF Thrown(info) THEN info ELSE ArrayItems(name, info.v, values.a, <<>>, d)
validateArray(name, type, format, items, values, d) ==
  IF d > MaxStack THEN Throw(RangeError(S("Maximum call stack size exceeded")))
  ELSE IF ~isArray(values)
  THEN Deepen(Throw(TypeValidationError(name, type, format, values, S("Not an 'array'."))), d)
  ELSE IF ~Truthy(items)
  THEN Deepen(Throw(TypeValidationError(name, type, format, values, S("Items not found."))), d)
  ELSE Deepen(ArrayWith(name, ItemsInfo(items, name), values, d), d)

\* a validateValue that refuses every null whose nullability is declared
validateValue_NeverNull(name, type, format, nullable, items, properties, required, value, d) ==
  IF isNull(value) /\ ~isUndefined(nullable)
  THEN Throw(NullableValidationError(name, type, format, value, S("Can not be 'null'.")))
  ELSE validateValueType(name, type, format, nullable, items, properties, required, value, d)

validateValue(name, type, format, nullable, items, properties, required, value, d) ==
  IF isNull(value) /\ ~isUndefined(nullable)
  THEN IF Truthy(nullable)
       THEN Return(Null)
       ELSE Throw(NullableValidationError(name, type, format, value, S("Can not be 'null'.")))
  ELSE validateValueType(name, type, format, nullable, items, properties, required, value, d)

validateValueType(name, type, format, nullable, items, properties, required, value, d) ==
  CASE type = S("boolean") -> validateBoolean(name, type, format, value)
    [] type = S("integer") -> validateInteger(name, type, format, value)
    [] type = S("number") -> validateNumber(name, type, format, value)
    [] type = S("string") -> validateString(name, type, format, value)
    [] type = S("object") ->
         validateObject(name, type, format, properties, required, value, d + 1)
    [] type = S("array") -> validateArray(name, type, format, items, value, d + 1)
    [] OTHER -> Throw(TypeValidationError(name, type, format, value, S("Unsupported type")))

\* a validateSchema that takes any body as it is
validateSchema_Unchecked(name, type, format, schema, value) == Return(value)

validateSchema(name, type, format, schema, value) ==
  IF ~Truthy(schema)
  THEN Throw(TypeValidationError(name, type, format, value, S("Schema not found.")))
  ELSE CASE Member(schema, "type") = S("object") ->
              validateObject(name, type, format, Member(schema, "properties"),
                             Member(schema, "required"), value, 1)
         [] Member(schema, "type") = S("array") ->
              validateArray(name, type, format, Member(schema, "items"), value, 1)
         [] OTHER ->
              Throw(TypeValidationError(name, type, format, value, S("Unsupported schema type")))

\* validateParameter, lines 390-398: the value is validated against the schema
\* of a body parameter, against the type of any other
ParameterValue(definition, name, type, format, value) ==
  IF Member(definition, "in") = S("body")
  THEN validateSchema(name, type, format, Member(definition, "schema"), value)
  ELSE validateValue(name, type, format, Member(definition, "x-nullable"),
                     Member(definition, "items"), Undefined, Undefined, value, 0)
\* parameterValue as it stands when the try block ends: the default has
\* replaced it when it was absent from the request and is not required
Defaulted(definition, value) ==
  IF /\ ~Truthy(Member(definition, "required"))
     /\ isUndefined(value)
     /\ ~isUndefined(Member(definition, "default"))
  THEN Member(definition, "default")
  ELSE value
\* validateParameter: the try block
TryParameter(definition, value) ==
  IF Truthy(Member(definition, "required")) /\ isUndefined(value)
  THEN Throw(RequiredValidationError(Member(definition, "name"), Member(definition, "type"),
                                     Member(definition, "format"), Undefined, S("")))
  ELSE IF isUndefined(Defaulted(definition, value))
  THEN Return(value)
  ELSE ParameterValue(definition, Member(definition, "name"), Member(definition, "type"),
                      Member(definition, "format"), Defaulted(definition, value))

\* validateParameter: the catch block wraps what the try block threw
Caught(definition, value, try) ==
  IF Thrown(try)
  THEN Deepen(Throw(ParameterValidationError(definition, value, try.e)), try.depth)
  ELSE try
validateParameter(definition, value) ==
  Caught(definition, Defaulted(definition, value), TryParameter(definition, value))

\* ctx as the validator reads and writes it: ctx.params, ctx.query, ctx.request.body
Ctx(params, query, body) == [params |-> params, query |-> query, body |-> body]
\* the name of a parameter, as a key
NameOf(definition) == Member(definition, "name").s[1]
getRequestParameterSource(ctx, definition) ==
  CASE Member(definition, "in") = S("path") -> Return(ctx.params)
    [] Member(definition, "in") = S("query") -> Return(ctx.query)
    [] Member(definition, "in") = S("body") -> Return(ctx.body)
    [] Member(definition, "in") = S("formData") -> Return(ctx.body)
    [] OTHER ->
         Throw(ParameterValidationError(definition, Undefined,
                 SourceValidationError(Member(definition, "name"), Member(definition, "type"),
                                       Member(definition, "format"), Undefined,
                                       S("Unknown source"))))
SourceMember(definition, source) ==
  IF Thrown(source) THEN source
  ELSE IF Member(definition, "in") = S("body") THEN source
  ELSE IF Nullish(source.v) THEN NoProperty(source.v)
  ELSE Return(Member(source.v, NameOf(definition)))
getParameterValue(ctx, definition) ==
  SourceMember(definition, getRequestParameterSource(ctx, definition))
\* a setParameterValue that leaves the request as it came
setParameterValue_Kept(ctx, definition, validated) == ctx

setParameterValue(ctx, definition, validated) ==
  CASE Member(definition, "in") = S("body") -> [ctx EXCEPT !.body = validated]
    [] Member(definition, "in") = S("path") ->
         [ctx EXCEPT !.params = Put(@, NameOf(definition), validated)]
    [] Member(definition, "in") = S("query") ->
         [ctx EXCEPT !.query = Put(@, NameOf(definition), validated)]
    [] Member(definition, "in") = S("formData") ->
         [ctx EXCEPT !.body = Put(@, NameOf(definition), validated)]

RECURSIVE validateParameters(_, _)
\* what validateParameters leaves: ctx as far as it was written, the error if
\* one was thrown, and the definitions the loop did not come to
Passed(ctx) == [t |-> "return", ctx |-> ctx, left |-> <<>>]
Stopped(ctx, e, left) == [t |-> "throw", ctx |-> ctx, e |-> e, left |-> left]
ParameterSet(ctx, definitions, validated) ==
  IF Thrown(validated) THEN Stopped(ctx, validated.e, Tail(definitions))
  ELSE validateParameters(setParameterValue(ctx, Head(definitions), validated.v),
                          Tail(definitions))
ParameterGot(ctx, definitions, got) ==
  IF Thrown(got) THEN Stopped(ctx, got.e, Tail(definitions))
  ELSE ParameterSet(ctx, definitions, validateParameter(Head(definitions), got.v))
\* _.forEach over the parameter definitions of the operation
validateParameters(ctx, definitions) ==
  IF definitions = <<>> THEN Passed(ctx)
  ELSE ParameterGot(ctx, definitions, getParameterValue(ctx, Head(definitions)))
\* validateRequest's catch block: the response of a request that failed
BadRequest(method, route, err) ==
  [status |-> 400,
   body |-> [code |-> Prop(err, "code"), message |-> Prop(err, "message"),
             route |-> [method |-> method, path |-> route],
             parameter |-> [expected |-> Prop(err, "parameterDefinition"),
                            actual |-> Prop(err, "parameterValue")]]]

-----------------------------------------------------------------------------
(* createRouter: the router factory *)

CONTROLLER_DIRECTORY_DEFAULT == "./controllers"
REQUEST_DEBUG_ERROR_HANDLER_DEFAULT == Null
\* strict mode off unless asked for
STRICT_MODE_DEFAULT_Off == Bool(FALSE)
STRICT_MODE_DEFAULT == Bool(TRUE)

Fn(name) == [k |-> "function", name |-> name]
\* the file system the router is built on: the directories that exist, and
\* the modules `require` resolves with what each exports
Directories == {"./test/controllers"}
Modules ==
  [path \in {<<"./test/controllers", "ItemController">>} |->
     Obj(<<P("getByQueryId", Fn("getByQueryId")), P("create", Fn("create")),
           P("fail", Fn("fail")), P("retired", Null)>>)]
\* utils.isDirectory, utils.isRequireResolvable(path.join(directory, name))
isDirectory(path) == path \in Directories
isRequireResolvable(controllerDirectory, controllerName) ==
  isString(controllerName) /\ <<controllerDirectory, controllerName.s[1]>> \in DOMAIN Modules

\* createNotImplementedControllerMethod(method, route)
createNotImplementedControllerMethod(method, route) ==
  [k |-> "function", name |-> "notImplemented", method |-> method, route |-> route]

\* the controller exports controllerMethodName, or strict mode decides
ControllerMethodOf(controllerMethod, controllerName, controllerMethodName, strictMode, method, route) ==
  IF Truthy(controllerMethod) THEN Return(controllerMethod)
  ELSE IF Truthy(strictMode)
  THEN Throw(RouteError(method, route,
                        Str(<<"Controller '">> \o StringOf(controllerName)
                            \o <<"' does not have a method '">>
                            \o StringOf(controllerMethodName) \o <<"'.">>)))
  ELSE Return(createNotImplementedControllerMethod(method, route))
getControllerMethod(controllerDirectory, controllerName, controllerMethodName, strictMode, method, route) ==
  IF ~Truthy(controllerName)
  THEN Throw(RouteError(method, route, S("Controller name not specified. Specify via 'x-controller'.")))
  ELSE IF ~isRequireResolvable(controllerDirectory, controllerName)
  THEN IF Truthy(strictMode)
       THEN Throw(RouteError(method, route,
                             Str(<<"Controller '">> \o StringOf(controllerName)
                                 \o <<"' does not exist.">>)))
       ELSE Return(createNotImplementedControllerMethod(method, route))
  ELSE IF ~Truthy(controllerMethodName)
  THEN Throw(RouteError(method, route,
                        Str(<<"Controller '">> \o StringOf(controllerName)
                            \o <<"' method name not specified. Specify via 'x-controller-method'.">>)))
  ELSE ControllerMethodOf(
         Member(Modules[<<controllerDirectory, controllerName.s[1]>>],
                controllerMethodName.s[1]),
         controllerName, controllerMethodName, strictMode, method, route)

\* the members of a koa-router instance that `router[method]` finds: the verbs
\* it defines, its other methods, and what it inherits
RouterMembers ==
  {"get", "post", "put", "head", "delete", "options", "patch", "trace", "del", "all", "use"}
    \cup ObjectPrototype

\* the option of that name, or its default
RouterOption(options, name, default) ==
  IF Truthy(options) /\ ~isUndefined(Member(options, name)) THEN Member(options, name)
  ELSE default

RECURSIVE Flatten(_)
Flatten(seqs) == IF seqs = <<>> THEN <<>> ELSE Head(seqs) \o Flatten(Tail(seqs))
\* the operations in the order the two _.forOwn loops meet them
RouteEntries(routes) ==
  Flatten([i \in DOMAIN OwnEntries(routes) |->
             [j \in DOMAIN OwnEntries(OwnEntries(routes)[i].val) |->
                [route |-> OwnEntries(routes)[i].key,
                 method |-> OwnEntries(OwnEntries(routes)[i].val)[j].key,
                 methodInfo |-> OwnEntries(OwnEntries(routes)[i].val)[j].val]]])

\* what the factory leaves: the routes registered so far, and the router
\* returned or the error thrown
Built(registered) == [t |-> "return", registered |-> registered]
Unbuilt(registered, e) == [t |-> "throw", registered |-> registered, e |-> e]
\* router[method](route, requestValidator, controllerMethod)
Route(entry, controllerMethod, requestDebugErrorHandler) ==
  [method |-> S(entry.method), route |-> S(entry.route),
   parameterDefinitions |-> Member(entry.methodInfo, "parameters"),
   controllerMethod |-> controllerMethod,
   requestDebugErrorHandler |-> requestDebugErrorHandler]
RECURSIVE Register(_, _, _, _, _)
\* a turn that looks for the router's method before the controller
Registered_MethodFirst(entries, registered, controllerDirectory, requestDebugErrorHandler, strictMode, controllerMethod) ==
  IF Head(entries).method \notin RouterMembers
  THEN Unbuilt(registered,
               RouteError(S(Head(entries).method), S(Head(entries).route),
                          Str(<<"Method '", Head(entries).method, "' does not exist.">>)))
  ELSE IF Thrown(controllerMethod) THEN Unbuilt(registered, controllerMethod.e)
  ELSE Register(Tail(entries),
                Append(registered,
                       Route(Head(entries), controllerMethod.v, requestDebugErrorHandler)),
                controllerDirectory, requestDebugErrorHandler, strictMode)
\* one turn of the inner loop, once getControllerMethod has returned or thrown
Registered(entries, registered, controllerDirectory, requestDebugErrorHandler, strictMode, controllerMethod) ==
  IF Thrown(controllerMethod) THEN Unbuilt(registered, controllerMethod.e)
  ELSE IF Head(entries).method \in RouterMembers
  THEN Register(Tail(entries),
                Append(registered,
                       Route(Head(entries), controllerMethod.v, requestDebugErrorHandler)),
                controllerDirectory, requestDebugErrorHandler, strictMode)
  ELSE Unbuilt(registered,
               RouteError(S(Head(entries).method), S(Head(entries).route),
                          Str(<<"Method '", Head(entries).method, "' does not exist.">>)))
Register(entries, registered, controllerDirectory, requestDebugErrorHandler, strictMode) ==
  IF entries = <<>> THEN Built(registered)
  ELSE Registered(entries, registered, controllerDirectory, requestDebugErrorHandler,
                  strictMode,
                  getControllerMethod(controllerDirectory,
                                      Member(Head(entries).methodInfo, "x-controller"),
                                      Member(Head(entries).methodInfo, "x-controller-method"),
                                      strictMode, S(Head(entries).method),
                                      S(Head(entries).route)))
\* the function createRouter returns, called: koa-router and koa-bodyparser
\* are installed, and no path of the documents has a {parameter} to rewrite
RouterWith(resolved, controllerDirectory, requestDebugErrorHandler, strictMode) ==
  IF ~isDirectory(controllerDirectory)
  THEN Unbuilt(<<>>, RouterError(Str(<<"Controller directory '", controllerDirectory,
                                       "' does not exist.">>)))
  ELSE Register(RouteEntries(Member(resolved, "paths")), <<>>, controllerDirectory,
                requestDebugErrorHandler, strictMode)
createRouter(resolved, options) ==
  RouterWith(resolved,
             RouterOption(options, "controllerDirectory", S(CONTROLLER_DIRECTORY_DEFAULT)).s[1],
             RouterOption(options, "requestDebugErrorHandler",
                          REQUEST_DEBUG_ERROR_HANDLER_DEFAULT),
             RouterOption(options, "strictMode", STRICT_MODE_DEFAULT))

\* a controller method, or the fallback, run on the ctx of a request: the
\* response it sets, or what it throws
Controller(controllerMethod, ctx) ==
  CASE controllerMethod.name = "notImplemented" ->
         Return([status |-> 501,
                 body |-> [code |-> RouteNotImplementedError(controllerMethod.method,
                                                             controllerMethod.route).code,
                           message |-> RouteNotImplementedError(controllerMethod.method,
                                                                controllerMethod.route).message,
                           route |-> [method |-> controllerMethod.method,
                                      path |-> controllerMethod.route]]])
    [] controllerMethod.name = "getByQueryId" ->
         Return([status |-> 200, body |-> [id |-> Member(ctx.query, "id")]])
    [] controllerMethod.name = "create" ->
         Return([status |-> 200, body |-> ctx.body])
    [] OTHER ->
         Throw([ctor |-> "Error", name |-> S("Error"),
                message |-> <<S("controller failed")>>])
\* a request debug error handler run on the response the catch block has set:
\* the response it leaves
Debugged(requestDebugErrorHandler, response) ==
  IF requestDebugErrorHandler.name = "teapot"
  THEN [status |-> 418, body |-> S("I'm a teapot!")]
  ELSE response

-----------------------------------------------------------------------------
(* The documents and requests the model is run on *)

\* data strings, one character per chunk
Chars_uuid ==
  <<"F", "6", "7", "5", "1", "F", "9", "E", "-", "0", "E", "2", "A", "-", "4", "7", "8", "8",
    "-", "B", "B", "9", "7", "-", "4", "6", "B", "D", "0", "E", "2", "D", "F", "2", "2", "4">>
Chars_isbn ==
  <<"9", "7", "8", "-", "1", "-", "8", "4", "9", "5", "1", "-", "8", "9", "9", "-", "4">>
Chars_dateTime ==
  <<"2", "0", "1", "6", "-", "0", "2", "-", "2", "9", "T", "1", "2", ":", "3", "0", ":", "0",
    "0", "Z">>
Text(c) == Str(c)
Ref(to) == Obj(<<P("$ref", Ptr(to))>>)
Names(names) == Arr([i \in DOMAIN names |-> S(names[i])])
Schema(type) == Obj(<<P("type", S(type))>>)
Formatted(type, format) == Obj(<<P("type", S(type)), P("format", S(format))>>)
With(object, key, val) == Put(object, key, val)
Without(object, key) ==
  LET Keep(e) == e.key # key IN Obj(SelectSeq(object.o, Keep))
Operation(parameters) == Obj(<<P("parameters", Arr(parameters))>>)
Parameter(name, in, schema) ==
  With(With(schema, "name", S(name)), "in", S(in))

\* a book with plain, defaulted, nullable, nested and array properties
BooksDocument ==
  LET author == Obj(<<P("type", S("object")), P("required", Names(<<"first_name">>)),
                      P("properties", Obj(<<P("first_name", Schema("string")),
                                            P("last_name", Schema("string"))>>))>>)
      publisher == Obj(<<P("type", S("object")), P("required", Names(<<"name">>)),
                         P("properties", Obj(<<P("name", Schema("string"))>>))>>)
      book ==
        Obj(<<P("type", S("object")),
              P("required", Names(<<"isbn", "edition", "pages", "publisher", "shelf">>)),
              P("properties",
                Obj(<<P("title", With(Schema("string"), "default", Text(<<"n", "/", "a">>))),
                      P("isbn", Formatted("string", "isbn")),
                      P("edition", With(Formatted("integer", "int32"), "default", Num(1))),
                      P("pages", With(Formatted("integer", "int32"), "x-nullable", Bool(TRUE))),
                      P("price", With(Formatted("number", "float"), "x-nullable", Bool(FALSE))),
                      P("published", Formatted("string", "date-time")),
                      P("publisher", Ref(<<"definitions", "Publisher">>)),
                      P("reviewer", With(publisher, "x-nullable", Bool(TRUE))),
                      P("authors", With(With(Schema("array"), "items", author),
                                        "x-nullable", Bool(TRUE)))>>))>>)
  IN Obj(<<P("paths",
             Obj(<<P("/books",
                     Obj(<<P("post", Operation(<<Ref(<<"parameters", "Book">>)>>)),
                           P("get", Operation(<<
                             Parameter("id", "query",
                                       With(Formatted("string", "uuid"), "required", Bool(TRUE))),
                             Parameter("limit", "query",
                                       With(Formatted("integer", "int32"), "default", Num(10))),
                             Parameter("since", "query", Formatted("string", "date-time")),
                             Parameter("draft", "formData",
                                       With(Schema("boolean"), "x-nullable", Bool(TRUE))),
                             Parameter("price", "formData",
                                       With(Formatted("number", "double"), "x-nullable",
                                            Bool(FALSE))),
                             Parameter("tags", "query",
                                       With(Schema("array"), "items", Schema("string")))>>))>>))>>)),
           P("parameters",
             Obj(<<P("Book", Obj(<<P("name", S("book")), P("in", S("body")),
                                   P("required", Bool(TRUE)),
                                   P("schema", Ref(<<"definitions", "Book">>))>>))>>)),
           P("definitions", Obj(<<P("Book", book), P("Publisher", publisher)>>))>>)

\* Person refers to itself through a property and through array items
PersonsDocument ==
  LET person ==
        Obj(<<P("type", S("object")), P("required", Names(<<"id">>)),
              P("properties",
                Obj(<<P("id", Formatted("integer", "int32")),
                      P("name", Schema("string")),
                      P("father", Ref(<<"definitions", "Person">>)),
                      P("relatives", With(Schema("array"), "items",
                                          Ref(<<"definitions", "Person">>)))>>))>>)
  IN Obj(<<P("paths",
             Obj(<<P("/persons",
                     Obj(<<P("post", Operation(<<
                             Obj(<<P("name", S("person")), P("in", S("body")),
                                   P("required", Bool(TRUE)),
                                   P("schema", Ref(<<"definitions", "Person">>))>>)>>))>>))>>)),
           P("definitions", Obj(<<P("Person", person)>>))>>)

\* Parent and Child refer to each other
FamilyDocument ==
  LET parent == Obj(<<P("type", S("object")),
                      P("properties", Obj(<<P("name", Schema("string")),
                                            P("child", Ref(<<"definitions", "Child">>))>>))>>)
      child == Obj(<<P("type", S("object")),
                     P("properties", Obj(<<P("name", Schema("string")),
                                           P("parent", Ref(<<"definitions", "Parent">>))>>))>>)
  IN Obj(<<P("paths",
             Obj(<<P("/parents",
                     Obj(<<P("post", Operation(<<
                             Obj(<<P("name", S("parent")), P("in", S("body")),
                                   P("schema", Ref(<<"definitions", "Parent">>))>>)>>))>>))>>)),
           P("definitions", Obj(<<P("Parent", parent), P("Child", child)>>))>>)

\* Folder refers to itself and declares a default
FoldersDocument ==
  LET folder == Obj(<<P("type", S("object")), P("default", Obj(<<>>)),
                      P("properties", Obj(<<P("name", Schema("string")),
                                            P("parent", Ref(<<"definitions", "Folder">>))>>))>>)
  IN Obj(<<P("paths",
             Obj(<<P("/folders",
                     Obj(<<P("post", Operation(<<
                             Obj(<<P("name", S("folder")), P("in", S("body")),
                                   P("schema", Ref(<<"definitions", "Folder">>))>>)>>))>>))>>)),
           P("definitions", Obj(<<P("Folder", folder)>>))>>)

\* test/data/ref_unknown.yaml: a reference to a definition that does not exist
UnknownDocument ==
  Obj(<<P("paths",
          Obj(<<P("/", Obj(<<P("get", Obj(<<P("responses",
                 Obj(<<P("200", Obj(<<P("schema", Ref(<<"definitions", "Unknown">>))>>))>>))>>))>>))>>)),
        P("definitions", Obj(<<P("Index", Schema("object"))>>))>>)

\* array bodies, bodies without an object or array schema, unknown formats and
\* unknown sources
ItemsDocument ==
  LET body(name, schema) ==
        Operation(<<Obj(<<P("name", S(name)), P("in", S("body")), P("schema", schema)>>)>>)
      thing ==
        Obj(<<P("type", S("object")), P("required", Names(<<"label">>)),
              P("properties",
                Obj(<<P("label", Schema("string")),
                      P("size", Schema("integer")),
                      P("count", With(Formatted("integer", "int32"), "default", Num(0))),
                      P("tags", With(Schema("array"), "items",
                                     With(Schema("string"), "x-nullable", Bool(FALSE))))>>))>>)
      plain == Obj(<<P("type", S("object")),
                     P("properties", Obj(<<P("constructor", Schema("string")),
                                           P("note", Schema("string"))>>))>>)
  IN Obj(<<P("paths",
             Obj(<<P("/items",
                     Obj(<<P("post", body("items",
                               With(Schema("array"), "items",
                                    With(Formatted("integer", "int32"), "x-nullable",
                                         Bool(TRUE))))),
                           P("put", body("rows",
                               With(Schema("array"), "items",
                                    With(Schema("array"), "items", Schema("string"))))),
                           P("patch", body("bare", Schema("array")))>>)),
                   P("/notes",
                     Obj(<<P("post", Operation(<<Obj(<<P("name", S("note")), P("in", S("body")),
                                                       P("required", Bool(TRUE))>>)>>)),
                           P("put", body("text", Schema("string"))),
                           P("patch", body("kind", Schema("map"))),
                           P("delete", body("memo",
                               With(Schema("object"), "properties",
                                    Obj(<<P("note", Schema("string"))>>))))>>)),
                   P("/things",
                     Obj(<<P("post", body("thing", thing)),
                           P("put", body("plain", plain))>>)),
                   P("/search",
                     Obj(<<P("get", Operation(<<
                             Parameter("q", "query", With(Schema("string"), "required", Bool(TRUE))),
                             Parameter("count", "query", Schema("integer")),
                             Parameter("ratio", "query", Formatted("number", "int32")),
                             Parameter("mail", "query", Formatted("string", "email")),
                             Parameter("total", "query", Formatted("integer", "int64")),
                             Parameter("token", "header",
                                       With(Schema("string"), "required", Bool(TRUE)))>>)),
                           P("head", Operation(<<
                             Parameter("trace", "header", Formatted("integer", "int32")),
                             Parameter("q", "query", Schema("string")),
                             Parameter("rate", "query", Schema("number")),
                             Parameter("short", "query", Formatted("integer", "int16")),
                             Parameter("page", "query",
                                       With(Formatted("integer", "int32"), "default",
                                            S("first")))>>))>>))>>))>>)

\* operations with controllers: extra is one more path, met by the factory
\* before or after '/items'
Controlled(controller, method, parameters) ==
  Obj(<<P("x-controller", S(controller)), P("x-controller-method", S(method)),
        P("parameters", Arr(parameters))>>)
ItemRoutes ==
  P("/items",
    Obj(<<P("get", Controlled("ItemController", "getByQueryId",
                   <<Parameter("id", "query",
                               With(Formatted("integer", "int32"), "required", Bool(TRUE))),
                     Parameter("limit", "query",
                               With(Formatted("integer", "int32"), "default", Num(10)))>>)),
          P("post", Controlled("ItemController", "create",
                    <<Parameter("dry", "query", Schema("boolean")),
                      Obj(<<P("name", S("item")), P("in", S("body")),
                            P("required", Bool(TRUE)),
                            P("schema",
                              Obj(<<P("type", S("object")),
                                    P("required", Names(<<"label">>)),
                                    P("properties",
                                      Obj(<<P("label", Schema("string")),
                                            P("count", Formatted("integer", "int32"))>>))>>))>>)>>)),
          P("delete", Controlled("ItemController", "fail",
                      <<Parameter("id", "query",
                                  With(Formatted("integer", "int32"), "required",
                                       Bool(TRUE)))>>))>>))
ExtraOperations ==
  {Obj(<<P("get", Controlled("ItemController", "getByQueryId", <<>>))>>),
   Obj(<<P("get", Obj(<<P("x-controller-method", S("getByQueryId"))>>))>>),
   Obj(<<P("get", Controlled("UnknownController", "getByQueryId", <<>>))>>),
   Obj(<<P("get", Obj(<<P("x-controller", S("UnknownController"))>>))>>),
   Obj(<<P("get", Obj(<<P("x-controller", S("ItemController"))>>))>>),
   Obj(<<P("get", Controlled("ItemController", "missing",
                             <<Parameter("id", "query",
                                         With(Formatted("integer", "int32"), "required",
                                              Bool(TRUE)))>>))>>),
   Obj(<<P("get", Controlled("ItemController", "retired", <<>>))>>),
   Obj(<<P("unknown", Controlled("ItemController", "getByQueryId", <<>>))>>),
   Obj(<<P("unknown", Controlled("UnknownController", "getByQueryId", <<>>))>>),
   Obj(<<P("use", Controlled("ItemController", "getByQueryId", <<>>))>>)}
RoutesDocument(extra, first) ==
  Obj(<<P("paths", Obj(IF first THEN <<P("/extra", extra), ItemRoutes>>
                       ELSE <<ItemRoutes, P("/extra", extra)>>))>>)
RouterDocuments == {RoutesDocument(extra, first) : extra \in ExtraOperations, first \in BOOLEAN}
RouterOptions ==
  {Undefined, Obj(<<P("strictMode", Bool(FALSE))>>)}
    \cup {Obj(<<P("controllerDirectory", S("./test/controllers"))>> \o strict \o handler) :
            strict \in {<<>>, <<P("strictMode", Bool(TRUE))>>, <<P("strictMode", Bool(FALSE))>>},
            handler \in {<<>>, <<P("requestDebugErrorHandler", Fn("log"))>>,
                         <<P("requestDebugErrorHandler", Fn("teapot"))>>}}
RouterContexts ==
  {Ctx(Obj(<<>>), Obj(<<P("id", Text(<<"7">>))>>),
       Obj(<<P("label", Text(<<"x">>)), P("count", Text(<<"3">>)), P("extra", Num(1))>>)),
   Ctx(Obj(<<>>), Obj(<<P("id", Text(<<"7">>)), P("limit", Text(<<"x">>)),
                        P("dry", Text(<<"t", "r", "u", "e">>))>>),
       Obj(<<P("count", Text(<<"3">>))>>)),
   Ctx(Obj(<<>>), Obj(<<P("id", Text(<<"a", "b", "c">>)), P("limit", Text(<<"x">>))>>),
       Undefined),
   Ctx(Obj(<<>>), Obj(<<>>), Num(5))}

Documents ==
  {BooksDocument, PersonsDocument, FamilyDocument, FoldersDocument, UnknownDocument,
   ItemsDocument}
\* options.refOptions: none, or a filter that admits no reference type
RefOptions == {Undefined, Obj(<<P("filter", Arr(<<>>))>>)}

\* values a path, query or form field can carry
FieldValues ==
  {Undefined, Null, Bool(FALSE), Num(12), Num(-3),
   Text(<<>>), Text(<<"t", "r", "u", "e">>), Text(<<"F", "a", "l", "s", "E">>),
   Text(<<"1", "2">>), Text(<<"-", "7">>), Text(<<"1", "2", ".", "5">>),
   Text(<<"1", "e", "3">>), Text(<<"1", "2", "a">>), Text(<<"a", "b", "c">>),
   Text(<<"2", "1", "4", "7", "4", "8", "3", "6", "4", "7">>),
   Text(<<"2", "1", "4", "7", "4", "8", "3", "6", "4", "8">>),
   Text(<<"-", "2", "1", "4", "7", "4", "8", "3", "6", "4", "8">>),
   Text(<<"-", "2", "1", "4", "7", "4", "8", "3", "6", "4", "9">>),
   Text(<<"1", "2", ".", "0">>), Number(FALSE, <<1, 2>>, <<5>>),
   Number(FALSE, <<1>> \o Zeros(21), <<>>),
   Text(Chars_uuid), Text(Chars_isbn), Text(Chars_dateTime),
   Arr(<<Text(<<"a">>), Text(<<"b">>)>>), Arr(<<Num(5)>>), Arr(<<Null>>), Obj(<<>>)}

\* object[key] = val, or delete object[key] when val is undefined
Vary(object, key, val) == IF isUndefined(val) THEN Without(object, key) ELSE With(object, key, val)

BookKeys ==
  {"title", "isbn", "edition", "pages", "price", "published", "publisher", "reviewer",
   "authors", "shelf"}
BookValues ==
  {Undefined, Null, Num(5), Text(<<"a", "b", "c">>), Text(<<"1", "2">>), Text(Chars_isbn),
   Text(Chars_dateTime), Obj(<<>>), Obj(<<P("name", Text(<<"x">>))>>), Obj(<<P("name", Num(7))>>),
   Arr(<<>>), Arr(<<Obj(<<P("first_name", Text(<<"a">>)), P("nick", Text(<<"b">>))>>)>>),
   Arr(<<Obj(<<P("first_name", Text(<<"a">>))>>), Obj(<<P("last_name", Text(<<"b">>))>>)>>),
   Arr(<<Null>>)}
Book ==
  Obj(<<P("isbn", Text(Chars_isbn)), P("edition", Num(2)), P("pages", Num(5)),
        P("publisher", Obj(<<P("name", Text(<<"x">>))>>)),
        P("published", Text(Chars_dateTime))>>)
\* the book, and the book with one property changed and another removed or null
BookBodies ==
  {Book, Null, Text(<<"a", "b", "c">>), Arr(<<Book>>)}
  \cup {Vary(Vary(Book, k1, v1), k2, v2) :
          k1 \in BookKeys, v1 \in BookValues, k2 \in BookKeys, v2 \in {Undefined, Null}}

\* how deep the nested bodies go
MaxNesting == 2
RECURSIVE Nested(_, _, _)
\* objects out of flat, nested under key (as a property and as array items)
Nested(flat, key, n) ==
  IF n = 0 THEN flat
  ELSE LET inner == Nested(flat, key, n - 1)
           outer == {f \in flat : f.k = "object"}
       IN inner \cup {With(f, key, i) : f \in outer, i \in inner}
                \cup {With(f, "relatives", Arr(<<i>>)) : f \in outer, i \in inner}
PersonBodies ==
  Nested({Null, Text(<<"a", "b", "c">>), Obj(<<>>), Obj(<<P("id", Num(1))>>),
          Obj(<<P("id", Text(<<"x">>)), P("name", Text(<<"n">>))>>)}, "father", MaxNesting)
ParentBodies ==
  Nested({Obj(<<>>), Obj(<<P("name", Text(<<"n">>))>>)}, "child", MaxNesting)
  \cup Nested({Obj(<<>>), Obj(<<P("name", Text(<<"n">>))>>)}, "parent", MaxNesting)
FolderBodies ==
  Nested({Null, Obj(<<>>), Obj(<<P("name", Text(<<"n">>))>>)}, "parent", MaxNesting)

ItemBodies ==
  {Undefined, Null, Text(<<"a", "b", "c">>), Num(5), Obj(<<>>), Arr(<<>>),
   Arr(<<Num(1), Num(2)>>), Arr(<<Text(<<"1", "2">>), Num(-3), Num(7)>>),
   Arr(<<Null, Num(3)>>), Arr(<<Number(FALSE, <<1>>, <<5>>)>>),
   Arr(<<Text(<<"a">>), Text(<<"b">>)>>),
   Arr(<<Arr(<<Text(<<"a">>)>>), Arr(<<Text(<<"b">>), Text(<<"c">>)>>)>>),
   Arr(<<Arr(<<>>)>>), Arr(<<Arr(<<Num(1)>>)>>),
   Obj(<<P("label", Text(<<"x">>)), P("extra", Num(1))>>),
   Obj(<<P("label", Text(<<"x">>)), P("size", Num(5)), P("count", Text(<<"4">>)),
         P("tags", Arr(<<Text(<<"a">>), Text(<<"b">>)>>))>>),
   Obj(<<P("label", Text(<<"x">>)), P("tags", Arr(<<Text(<<"a">>), Null>>))>>),
   Obj(<<P("label", Text(<<"x">>)), P("tags", Text(<<"a">>))>>),
   Obj(<<P("note", Text(<<"n">>))>>),
   Obj(<<P("constructor", Text(<<"c">>)), P("other", Null)>>)}

\* the bodies tried against a document's body parameters
Bodies(doc) ==
  CASE doc = BooksDocument -> BookBodies
    [] doc = ItemsDocument -> ItemBodies
    [] doc = PersonsDocument -> PersonBodies
    [] doc = FamilyDocument -> ParentBodies
    [] doc = FoldersDocument -> FolderBodies
    [] OTHER -> {Undefined, Obj(<<>>)}

\* every parameter definition of every operation of the resolved document
ParameterDefinitions(resolved) ==
  LET paths == Member(resolved, "paths")
      list(route, method) == At(paths, <<route, method, "parameters">>)
  IN UNION {UNION {IF isArray(list(route, method))
                   THEN {list(route, method).a[i] : i \in DOMAIN list(route, method).a}
                   ELSE {}
                     : method \in Keys(Member(paths, route))}
              : route \in Keys(paths)}

-----------------------------------------------------------------------------
(* Operations *)

\* validateParameters, for one parameter: getParameterValue fails on a source
\* that is not one of the four, otherwise the value found there is validated
validateOne(definition, value) ==
  IF Member(definition, "in") \in {S("path"), S("query"), S("body"), S("formData")}
  THEN validateParameter(definition, value)
  ELSE Throw(ParameterValidationError(definition, Undefined,
               SourceValidationError(Member(definition, "name"), Member(definition, "type"),
                                     Member(definition, "format"), Undefined,
                                     S("Unknown source"))))

ValidationErrors ==
  {"SourceValidationError", "RequiredValidationError", "NullableValidationError",
   "TypeValidationError", "FormatValidationError"}
\* new <ctor>(name, type, format, value, message)
Construct(ctor, name, type, format, value, message) ==
  CASE ctor = "SourceValidationError" -> SourceValidationError(name, type, format, value, message)
    [] ctor = "RequiredValidationError" -> RequiredValidationError(name, type, format, value, message)
    [] ctor = "NullableValidationError" -> NullableValidationError(name, type, format, value, message)
    [] ctor = "TypeValidationError" -> TypeValidationError(name, type, format, value, message)
    [] ctor = "FormatValidationError" -> FormatValidationError(name, type, format, value, message)

Init ==
  /\ pc = "start"
  /\ document \in Documents
  /\ refOptions \in RefOptions
  /\ spec = Undefined
  /\ loadError = Undefined
  /\ exported = Undefined
  /\ parameterDefinition = Undefined
  /\ parameterValue = Undefined
  /\ outcome = Undefined
  /\ again = Undefined
  /\ made = Undefined
  /\ requests = <<>>
  /\ routerOptions = Undefined
  /\ router = Undefined

\* koaspec(uri, options): r is what the call returned or threw
Loaded(r) ==
  IF Thrown(r)
  THEN /\ loadError' = r.e
       /\ pc' = "failed"
       /\ UNCHANGED <<spec, exported>>
  ELSE /\ spec' = [resolved |-> r.v.spec, refs |-> r.v.refs]
       /\ exported' = r.v
       /\ pc' = "loaded"
       /\ UNCHANGED loadError
Load ==
  /\ pc = "start"
  /\ Loaded(koaspec(document, IF isUndefined(refOptions) THEN Undefined
                              ELSE Obj(<<P("refOptions", refOptions)>>)))
  /\ UNCHANGED <<document, refOptions, parameterDefinition, parameterValue, outcome, again, made,
                 requests, routerOptions, router>>

\* a request reaches the validator of an operation: one of its parameters is
\* validated against the value the request carries for it
Validate ==
  /\ pc = "loaded"
  /\ \E definition \in ParameterDefinitions(spec.resolved) :
       \E value \in IF Member(definition, "in") = S("body") THEN Bodies(document)
                    ELSE FieldValues :
         /\ parameterDefinition' = definition
         /\ parameterValue' = value
         /\ outcome' = validateOne(definition, value)
  /\ pc' = "validated"
  /\ UNCHANGED <<document, refOptions, spec, loadError, exported, again, made, requests, routerOptions, router>>

\* the typed value is validated once more against the same definition
Revalidate ==
  /\ pc = "validated"
  /\ Returned(outcome)
  /\ again' = validateOne(parameterDefinition, outcome.v)
  /\ pc' = "revalidated"
  /\ UNCHANGED <<document, refOptions, spec, loadError, exported, parameterDefinition,
                 parameterValue, outcome, made, requests, routerOptions, router>>

\* a validation error is constructed
NewError ==
  /\ pc = "start"
  /\ \E ctor \in ValidationErrors, name \in {S("isbn"), S("id")},
        type \in {S("string"), S("integer")}, format \in {Undefined, S("int32")},
        value \in {Undefined, Null, Num(7), Text(<<"a", "b", "c">>)} :
       made' = [ctor |-> ctor, name |-> name, type |-> type, format |-> format,
                value |-> value,
                error |-> Construct(ctor, name, type, format, value, S("message"))]
  /\ pc' = "made"
  /\ UNCHANGED <<document, refOptions, spec, loadError, exported, parameterDefinition,
                 parameterValue, outcome, again, requests, routerOptions, router>>

Next == Load \/ Validate \/ Revalidate \/ NewError

Spec == Init /\ [][Next]_vars

-----------------------------------------------------------------------------
(* Requests: the router hands each request, with its own ctx, to the
   validator created for its operation; a validator runs to its end before
   another one starts, and the requests are served in any order *)

\* the requests the router has in hand at once
MaxRequests == 2
RequestRoutes == {"/search", "/items"}
\* createRouter: one validator per route and method of the resolved document
Operations(resolved) ==
  UNION {{[method |-> S(method), route |-> S(route),
           parameterDefinitions |->
             At(Member(resolved, "paths"), <<route, method, "parameters">>)]
            : method \in Keys(Member(Member(resolved, "paths"), route))}
           : route \in Keys(Member(resolved, "paths")) \cap RequestRoutes}
Contexts ==
  {Ctx(Obj(<<>>), Obj(<<P("q", Text(<<"x">>)), P("total", Text(<<"5">>))>>),
       Arr(<<Text(<<"1", "2">>), Num(3)>>)),
   Ctx(Obj(<<>>), Obj(<<>>), Undefined),
   Ctx(Obj(<<>>), Obj(<<P("count", Text(<<"a", "b", "c">>)), P("q", Text(<<"y">>))>>),
       Arr(<<Arr(<<Text(<<"a">>)>>)>>))}
DefinitionsOf(request) ==
  IF isArray(request.parameterDefinitions) THEN request.parameterDefinitions.a ELSE <<>>
\* a validator that keeps the ctx of the first request for every later one
Context_Shared(r) == requests[1].ctx
\* `this` of validateRequest: the ctx of the request being served
Context(r) == requests[r].ctx

InitRequests ==
  /\ Init
  /\ document = ItemsDocument
  /\ refOptions = Undefined

\* a request arrives for one of the operations
Receive ==
  /\ pc = "loaded"
  /\ Len(requests) < MaxRequests
  /\ \E operation \in Operations(spec.resolved), ctx \in Contexts :
       requests' = Append(requests,
                          [method |-> operation.method, route |-> operation.route,
                           parameterDefinitions |-> operation.parameterDefinitions,
                           received |-> ctx, ctx |-> ctx, status |-> "received",
                           response |-> Undefined])
  /\ UNCHANGED <<pc, document, refOptions, spec, loadError, exported, parameterDefinition,
                 parameterValue, outcome, again, made, routerOptions, router>>

\* validateRequest on what validateParameters left: `yield next`, or the catch block
Handled(request, run) ==
  IF run.t = "throw"
  THEN [request EXCEPT !.ctx = run.ctx, !.status = "rejected",
                       !.response = BadRequest(request.method, request.route, run.e)]
  ELSE [request EXCEPT !.ctx = run.ctx, !.status = "downstream"]
ValidateRequest ==
  /\ pc = "loaded"
  /\ \E r \in DOMAIN requests :
       /\ requests[r].status = "received"
       /\ requests' = [requests EXCEPT ![r] =
                         Handled(@, validateParameters(Context(r), DefinitionsOf(@)))]
  /\ UNCHANGED <<pc, document, refOptions, spec, loadError, exported, parameterDefinition,
                 parameterValue, outcome, again, made, routerOptions, router>>

\* the controller method behind the validator has run
Respond ==
  /\ pc = "loaded"
  /\ \E r \in DOMAIN requests :
       /\ requests[r].status = "downstream"
       /\ requests' = [requests EXCEPT ![r].status = "responded"]
  /\ UNCHANGED <<pc, document, refOptions, spec, loadError, exported, parameterDefinition,
                 parameterValue, outcome, again, made, routerOptions, router>>

NextRequests == Load \/ Receive \/ ValidateRequest \/ Respond

SpecRequests == InitRequests /\ [][NextRequests]_vars

-----------------------------------------------------------------------------
(* The router: the factory is called on a loaded document, then the router
   it returned serves one request from its arrival to its response *)

InitRouter ==
  /\ pc = "start"
  /\ document \in RouterDocuments
  /\ refOptions = Undefined
  /\ routerOptions \in RouterOptions
  /\ spec = Undefined /\ loadError = Undefined /\ exported = Undefined
  /\ parameterDefinition = Undefined /\ parameterValue = Undefined
  /\ outcome = Undefined /\ again = Undefined /\ made = Undefined
  /\ requests = <<>>
  /\ router = Undefined

\* spec.router(): the factory createRouter returned is called
Build ==
  /\ pc = "loaded"
  /\ router = Undefined
  /\ router' = createRouter(spec.resolved, routerOptions)
  /\ pc' = IF createRouter(spec.resolved, routerOptions).t = "throw" THEN "unbuilt" ELSE "built"
  /\ UNCHANGED <<document, refOptions, spec, loadError, exported, parameterDefinition,
                 parameterValue, outcome, again, made, requests, routerOptions>>

\* the response of koa before anything set it
NotFound == [status |-> 404, body |-> Undefined]
\* a request arrives for one of the registered routes
Arrive ==
  /\ pc = "built"
  /\ requests = <<>>
  /\ \E i \in DOMAIN router.registered, ctx \in RouterContexts :
       requests' = <<[method |-> router.registered[i].method,
                      route |-> router.registered[i].route,
                      parameterDefinitions |-> router.registered[i].parameterDefinitions,
                      controllerMethod |-> router.registered[i].controllerMethod,
                      requestDebugErrorHandler |-> router.registered[i].requestDebugErrorHandler,
                      received |-> ctx, ctx |-> ctx, status |-> "received",
                      response |-> NotFound, error |-> Undefined, caught |-> Undefined,
                      dispatched |-> 0, debugged |-> 0,
                      unchecked |-> DefinitionsOf(router.registered[i])]>>
  /\ UNCHANGED <<pc, document, refOptions, spec, loadError, exported, parameterDefinition,
                 parameterValue, outcome, again, made, routerOptions, router>>

\* a catch block that never hands the error to the request debug error handler
Catch_Unhandled(request, err) ==
  [request EXCEPT !.error = err,
                  !.response = BadRequest(request.method, request.route, err),
                  !.caught = BadRequest(request.method, request.route, err),
                  !.status = "responded"]
\* validateRequest's catch block for err: status and body are set; the
\* request debug error handler, if there is one, is still to run
Catch(request, err) ==
  [request EXCEPT !.error = err,
                  !.response = BadRequest(request.method, request.route, err),
                  !.caught = BadRequest(request.method, request.route, err),
                  !.status = IF Truthy(request.requestDebugErrorHandler) THEN "caught"
                             ELSE "responded"]
\* validateRequest up to `yield next`
Checked(request, run) ==
  IF run.t = "throw"
  THEN Catch([request EXCEPT !.ctx = run.ctx, !.unchecked = run.left], run.e)
  ELSE [request EXCEPT !.ctx = run.ctx, !.unchecked = run.left, !.status = "downstream"]
Check ==
  /\ pc = "built"
  /\ requests # <<>> /\ requests[1].status = "received"
  /\ requests' = <<Checked(requests[1],
                           validateParameters(requests[1].ctx, DefinitionsOf(requests[1])))>>
  /\ UNCHANGED <<pc, document, refOptions, spec, loadError, exported, parameterDefinition,
                 parameterValue, outcome, again, made, routerOptions, router>>

\* `yield next`: the controller method runs inside validateRequest's try block
Ran(request, ran) ==
  IF Thrown(ran) THEN Catch([request EXCEPT !.dispatched = @ + 1], ran.e)
  ELSE [request EXCEPT !.dispatched = @ + 1, !.response = ran.v, !.status = "responded"]
Dispatch ==
  /\ pc = "built"
  /\ requests # <<>> /\ requests[1].status = "downstream"
  /\ requests' = <<Ran(requests[1],
                       Controller(requests[1].controllerMethod, requests[1].ctx))>>
  /\ UNCHANGED <<pc, document, refOptions, spec, loadError, exported, parameterDefinition,
                 parameterValue, outcome, again, made, routerOptions, router>>

\* yield* requestDebugErrorHandler(this, err)
Debug ==
  /\ pc = "built"
  /\ requests # <<>> /\ requests[1].status = "caught"
  /\ requests' = <<[requests[1] EXCEPT
                      !.debugged = @ + 1,
                      !.response = Debugged(requests[1].requestDebugErrorHandler, @),
                      !.status = "responded"]>>
  /\ UNCHANGED <<pc, document, refOptions, spec, loadError, exported, parameterDefinition,
                 parameterValue, outcome, again, made, routerOptions, router>>

NextRouter == Load \/ Build \/ Arrive \/ Check \/ Dispatch \/ Debug

SpecRouter == InitRouter /\ [][NextRouter]_vars

-----------------------------------------------------------------------------
(* What the states are examined for *)

Validated == pc \in {"validated", "revalidated"}
InBody == Member(parameterDefinition, "in") = S("body")
\* the codes the table declares
DeclaredCodes == {CODES[key] : key \in DOMAIN CODES}
\* the error validateParameter wrapped
Cause == outcome.e.cause
Failed(r, ctor) == Thrown(r) /\ r.e.ctor = "ParameterValidationError" /\ r.e.cause.ctor = ctor
\* chunks occurs in text as a run
Contains(text, chunks) ==
  \E i \in 0..(Len(text) - Len(chunks)) : SubSeq(text, i + 1, i + Len(chunks)) = chunks

Max(set) == IF set = {} THEN 0 ELSE CHOOSE m \in set : \A n \in set : n <= m
RECURSIVE ValueDepth(_)
\* how deep the maps and lists of a value nest; a scalar has depth 0
ValueDepth(v) ==
  CASE v.k = "object" -> 1 + Max({ValueDepth(v.o[i].val) : i \in DOMAIN v.o})
    [] v.k = "array" -> 1 + Max({ValueDepth(v.a[i]) : i \in DOMAIN v.a})
    [] OTHER -> 0

(* C1: every failure raised while validating a parameter is a Parameter error
   wrapping a Source, Required, Nullable, Type or Format error, and its code is
   one of the declared codes *)
C1_FailuresCarryDeclaredCodes ==
  (Validated /\ Thrown(outcome)) =>
    /\ outcome.e.ctor = "ParameterValidationError"
    /\ Cause.ctor \in ValidationErrors
    /\ outcome.e.code \in DeclaredCodes

CyclicDocuments == {PersonsDocument, FamilyDocument, FoldersDocument}
(* C2: validation against a cyclic schema enters no more nested validators
   than the raw value has levels (one more for a scalar met where a map or a
   list is declared), and a valid instance (every body tried against Parent/Child is one:
   maps with string names) yields a typed value *)
C2_CyclicValidationIsBounded ==
  (Validated /\ InBody /\ refOptions = Undefined /\ document \in CyclicDocuments) =>
    /\ outcome.depth <= ValueDepth(parameterValue) + 1
    /\ (document = FamilyDocument => Returned(outcome))

RECURSIVE HasDate(_)
\* the value is, or holds, a Date
HasDate(v) ==
  CASE v.k = "date" -> TRUE
    [] v.k = "object" -> \E i \in DOMAIN v.o : HasDate(v.o[i].val)
    [] v.k = "array" -> \E i \in DOMAIN v.a : HasDate(v.a[i])
    [] OTHER -> FALSE

(* C3 as stated: validating a typed value once more against the same schema
   succeeds and yields an equal value, for every type and format *)
C3_RevalidationIsIdentity ==
  pc = "revalidated" => (Returned(again) /\ again.v = outcome.v)

(* C3: validating a typed value that holds no Date once more succeeds and
   yields an equal value; a typed value that is a Date (the result of
   string/date-time) is rejected with a Type error *)
C3_RevalidationIsIdentityWithoutDates ==
  pc = "revalidated" =>
    /\ ~HasDate(outcome.v) => (Returned(again) /\ again.v = outcome.v)
    /\ outcome.v.k = "date" => Failed(again, "TypeValidationError")
C3_Revalidated ==
  /\ pc = "revalidated"
  /\ InBody /\ document = BooksDocument
  /\ outcome.v.k = "object" /\ ~HasDate(outcome.v)
  /\ Get(outcome.v, "title") = Text(<<"n", "/", "a">>)
  /\ Get(outcome.v, "edition") = Num(2)
  /\ Get(outcome.v, "pages") = Null
  /\ again = outcome

\* the references of the document that point at nothing
MissingRefs(doc) == {r \in {FindRefs(doc, <<>>)[i] : i \in DOMAIN FindRefs(doc, <<>>)} : Missing(doc, r)}
\* the message of the error names the pointer
MessageNames(error, uri) == \E i \in DOMAIN error.message : Contains(error.message[i].s, uri.s)
(* C4 as stated: loading a document with a '$ref' that has no target fails,
   the error names the pointer, and nothing is exported *)
C4_MissingRefFailsLoad ==
  (pc # "start" /\ pc # "made" /\ MissingRefs(document) # {}) =>
    /\ pc = "failed"
    /\ exported = Undefined
    /\ \A r \in MissingRefs(document) : MessageNames(loadError, r.uri)

(* C4: loading a document with a '$ref' that has no target, under reference
   options that do not filter the reference out, fails, the error names the
   pointer, and nothing is exported *)
C4_GatheredMissingRefFailsLoad ==
  (pc # "start" /\ pc # "made" /\ MissingRefs(document) # {}
     /\ Member(refOptions, "filter") # Arr(<<>>)) =>
    /\ pc = "failed"
    /\ exported = Undefined
    /\ spec = Undefined
    /\ \A r \in MissingRefs(document) : MessageNames(loadError, r.uri)
C4_LoadFailed ==
  /\ pc = "failed"
  /\ document = UnknownDocument
  /\ MessageNames(loadError, Ptr(<<"definitions", "Unknown">>))

Elements(seq) == {seq[i] : i \in DOMAIN seq}
RECURSIVE ObjectCases(_, _)
\* the maps met where schema declares an object, at every level of value, each
\* with the properties and the required names declared for it
ObjectCases(schema, value) ==
  CASE Nullish(schema) -> {}
    [] Member(schema, "type") = S("object") /\ value.k = "object" ->
         {[properties |-> Member(schema, "properties"),
           required |-> Member(schema, "required"), value |-> value]}
         \cup UNION {IF Thrown(PropertyInfo(e.val, e.key)) THEN {}
                     ELSE ObjectCases(PropertyInfo(e.val, e.key).v, Member(value, e.key))
                       : e \in Elements(OwnEntries(Member(schema, "properties")))}
    [] Member(schema, "type") = S("array") /\ value.k = "array" ->
         UNION {ObjectCases(Member(schema, "items"), item) : item \in Elements(value.a)}
    [] OTHER -> {}
\* the maps of the body that was validated
Cases ==
  IF Validated /\ InBody
  THEN ObjectCases(Member(parameterDefinition, "schema"), parameterValue)
  ELSE {}
Entries(c) == OwnEntries(c.properties)
\* the declared properties of a case, each with the schema found for it
Declared(c) ==
  {[key |-> e.key, info |-> PropertyInfo(e.val, e.key).v] :
     e \in {x \in Elements(Entries(c)) :
              Returned(PropertyInfo(x.val, x.key)) /\ ~Nullish(PropertyInfo(x.val, x.key).v)}}
Absent(c, key) == isUndefined(Member(c.value, key))
\* validateObject on the case, and its loop body on one declared property
Whole(c) == validateObject(S("body"), S("object"), Undefined, c.properties, c.required, c.value, 1)
Turn(c, p) == Property(p.key, p.info, c.required, c.value, 1)
\* the type check alone, on one declared property
TypeCheck(p, value) ==
  validateValueType(S(p.key), Member(p.info, "type"), Member(p.info, "format"),
                    Member(p.info, "x-nullable"), Member(p.info, "items"),
                    Member(p.info, "properties"), Member(p.info, "required"), value, 1)
NullParameter ==
  /\ Validated /\ ~InBody /\ parameterValue = Null
  /\ Member(parameterDefinition, "in") \in {S("path"), S("query"), S("formData")}

(* C5 as stated: a null where 'x-nullable' is undeclared or false fails with a
   Nullable error, for an object property and for a non-body parameter *)
C5_NullIsRejectedUnlessNullable ==
  /\ \A c \in Cases : \A p \in Declared(c) :
       (Member(c.value, p.key) = Null
          /\ Member(p.info, "x-nullable") \in {Undefined, Bool(FALSE)}) =>
         (Thrown(Turn(c, p)) /\ Turn(c, p).e.ctor = "NullableValidationError")
  /\ (NullParameter /\ Member(parameterDefinition, "x-nullable") \in {Undefined, Bool(FALSE)}) =>
       Failed(outcome, "NullableValidationError")

(* C5: a null where 'x-nullable' is declared false fails with a Nullable
   error; a null where 'x-nullable' is undeclared raises no Nullable error and
   is what the type check of the declared type makes of null *)
C5_NullIsRejectedWhenNotNullable ==
  /\ \A c \in Cases : \A p \in Declared(c) :
       Member(c.value, p.key) = Null =>
         /\ Member(p.info, "x-nullable") = Bool(FALSE) =>
              (Thrown(Turn(c, p)) /\ Turn(c, p).e.ctor = "NullableValidationError")
         /\ isUndefined(Member(p.info, "x-nullable")) =>
              /\ ~(Thrown(Turn(c, p)) /\ Turn(c, p).e.ctor = "NullableValidationError")
              /\ Turn(c, p) = TypeCheck(p, Null)
  /\ NullParameter =>
       /\ Member(parameterDefinition, "x-nullable") = Bool(FALSE) =>
            Failed(outcome, "NullableValidationError")
       /\ isUndefined(Member(parameterDefinition, "x-nullable")) =>
            ~Failed(outcome, "NullableValidationError")
C5_NullPrice ==
  /\ Validated /\ InBody /\ document = BooksDocument
  /\ Member(parameterValue, "price") = Null
  /\ Failed(outcome, "NullableValidationError")
  /\ Cause.message[2] = S("price")

(* C6: a null where 'x-nullable: true' is declared validates to null, whatever
   the declared type and whether or not the property is required, for an object
   property and for a non-body parameter *)
C6_NullIsAcceptedWhenNullable ==
  /\ \A c \in Cases : \A p \in Declared(c) :
       (Member(c.value, p.key) = Null /\ Member(p.info, "x-nullable") = Bool(TRUE)) =>
         Turn(c, p) = Return(Null)
  /\ \A c \in Cases :
       (Returned(Whole(c)) /\ \E p \in Declared(c) : Member(c.value, p.key) = Null) =>
         \A p \in Declared(c) :
           (Member(c.value, p.key) = Null /\ Member(p.info, "x-nullable") = Bool(TRUE)) =>
             (HasOwn(Whole(c).v, p.key) /\ Get(Whole(c).v, p.key) = Null)
  /\ (NullParameter /\ Member(parameterDefinition, "x-nullable") = Bool(TRUE)) =>
       outcome = Return(Null)
C6_NullPages ==
  /\ Validated /\ InBody /\ document = BooksDocument
  /\ Member(parameterValue, "pages") = Null
  /\ Member(parameterValue, "reviewer") = Null
  /\ Returned(outcome)
  /\ Get(outcome.v, "pages") = Null
  /\ Get(outcome.v, "reviewer") = Null

(* C7: every error the library constructs carries a code that is a number
   listed in CODES, distinct kinds carry distinct codes, and a Parameter
   error carries the code of its cause *)
C7_CodesAreDeclared ==
  /\ \A a, b \in DOMAIN CODES : a # b => CODES[a] # CODES[b]
  /\ pc = "made" => made.error.code \in DeclaredCodes
  /\ (Validated /\ Thrown(outcome) /\ Cause.ctor \in ValidationErrors) =>
       (outcome.e.code = Cause.code /\ Cause.code \in DeclaredCodes)

(* C8: a validation error constructed with (name, type, format, value) has
   these four as its name, type, format and value *)
C8_ErrorsCarryTheirContext ==
  pc = "made" =>
    /\ made.error.name = made.name
    /\ made.error.type = made.type
    /\ made.error.format = made.format
    /\ made.error.value = made.value

\* the names an object schema lists as required
RequiredNames(c) ==
  IF isArray(c.required) THEN {v.s[1] : v \in {x \in Elements(c.required.a) : isString(x)}}
  ELSE {}
HasDefault(c, key) ==
  \E p \in Declared(c) : p.key = key /\ ~isUndefined(Member(p.info, "default"))
RequiredErrorNaming(r, key) ==
  Thrown(r) /\ r.e.ctor = "RequiredValidationError" /\ r.e.message[2] = S(key)

(* C9 as stated: at every level, a name listed in 'required' that is absent
   from the map and has no declared default makes validation of the map fail
   with a Required error naming it *)
C9_AbsentRequiredFails ==
  \A c \in Cases : \A key \in RequiredNames(c) :
    (Absent(c, key) /\ ~HasDefault(c, key)) => RequiredErrorNaming(Whole(c), key)

(* C9: at every level, a property declared in 'properties' and listed in
   'required' that is absent from the map makes validation of the map fail
   with a Required error naming it, provided no property declared before it
   fails first *)
C9_AbsentDeclaredRequiredFails ==
  \A c \in Cases : \A i \in DOMAIN Entries(c) :
    (/\ Entries(c)[i].key \in RequiredNames(c)
     /\ Absent(c, Entries(c)[i].key)
     /\ \E p \in Declared(c) : p.key = Entries(c)[i].key
     /\ \A j \in 1..(i - 1) : ~Thrown(PropertyOf(Entries(c)[j], c.required, c.value, 1)))
    => RequiredErrorNaming(Whole(c), Entries(c)[i].key)
C9_PublisherWithoutName ==
  /\ Validated /\ InBody /\ document = BooksDocument
  /\ Member(parameterValue, "publisher") = Obj(<<>>)
  /\ Failed(outcome, "RequiredValidationError")
  /\ Cause.message[2] = S("name")

\* what validating value as the declared property p yields
Typed(p, value) ==
  validateValue(S(p.key), Member(p.info, "type"), Member(p.info, "format"),
                Member(p.info, "x-nullable"), Member(p.info, "items"),
                Member(p.info, "properties"), Member(p.info, "required"), value, 1)
Defaulting(c) ==
  {p \in Declared(c) : ~isUndefined(Member(p.info, "default"))}

(* C10 as stated: a declared property absent from the map whose schema
   declares a default is validated as the default and placed in the output,
   required or not; a property that is present is validated as it is *)
C10_DefaultIsSubstituted ==
  \A c \in Cases : \A p \in Defaulting(c) :
    /\ Absent(c, p.key) =>
         /\ Returned(Turn(c, p))
         /\ Returned(Whole(c)) => Get(Whole(c).v, p.key) = Typed(p, Member(p.info, "default")).v
    /\ (~Absent(c, p.key) /\ Returned(Whole(c))) =>
         Get(Whole(c).v, p.key) = Typed(p, Member(c.value, p.key)).v

(* C10: a declared property that is not required, is absent from the map and
   declares a default is validated as the default and, when the map validates,
   placed in the output; a required one that is absent fails with a Required
   error, default or not; a property that is present is validated as it is *)
C10_DefaultIsSubstitutedUnlessRequired ==
  \A c \in Cases : \A p \in Defaulting(c) :
    /\ (Absent(c, p.key) /\ p.key \notin RequiredNames(c)) =>
         /\ Turn(c, p).t = Typed(p, Member(p.info, "default")).t
         /\ Returned(Whole(c)) =>
              (/\ HasOwn(Whole(c).v, p.key)
               /\ Get(Whole(c).v, p.key) = Typed(p, Member(p.info, "default")).v)
    /\ (Absent(c, p.key) /\ p.key \in RequiredNames(c)) =>
         (RequiredErrorNaming(Turn(c, p), p.key) /\ Thrown(Whole(c)))
    /\ (~Absent(c, p.key) /\ Returned(Whole(c))) =>
         Get(Whole(c).v, p.key) = Typed(p, Member(c.value, p.key)).v
C10_TitleDefaulted ==
  /\ Validated /\ InBody /\ document = BooksDocument
  /\ isUndefined(Member(parameterValue, "title"))
  /\ Member(parameterValue, "edition") = Num(5)
  /\ Returned(outcome)
  /\ Get(outcome.v, "title") = Text(<<"n", "/", "a">>)
  /\ Get(outcome.v, "edition") = Num(5)

\* the input map of a case without the properties its schema does not declare
Projection(c) ==
  Obj(SelectSeq(c.value.o, LAMBDA e : HasOwn(c.properties, e.key)))
\* the declared properties the input map carries, or that declare a default
Projected(c) ==
  {p.key : p \in {q \in Declared(c) : HasOwn(c.value, q.key) \/ HasDefault(c, q.key)}}

(* C11: the map produced by object validation is an allow-list projection of
   the input: its keys are exactly the declared properties the input carries
   or that received a default; properties that are not declared change
   nothing, and a declared property that is not required, is not carried by
   the input and has no default is left out without error *)
C11_OutputIsAllowListProjection ==
  \A c \in Cases :
    /\ Returned(Whole(c)) => Keys(Whole(c).v) = Projected(c)
    /\ Whole(c) = Whole([c EXCEPT !.value = Projection(c)])
    /\ \A p \in Declared(c) :
         (/\ ~HasOwn(c.value, p.key)
          /\ p.key \notin RequiredNames(c)
          /\ ~HasDefault(c, p.key)) => Turn(c, p) = Skip

ArrayCase(name, items, value) == [name |-> name, items |-> items, value |-> value]
\* the sequences handed to validateArray for the parameter itself
ParameterArrays ==
  IF ~Validated THEN {}
  ELSE IF InBody
  THEN IF /\ Truthy(Member(parameterDefinition, "schema"))
          /\ Member(Member(parameterDefinition, "schema"), "type") = S("array")
          /\ ~isUndefined(parameterValue)
       THEN {ArrayCase(Member(parameterDefinition, "name"),
                       Member(Member(parameterDefinition, "schema"), "items"), parameterValue)}
       ELSE {}
  ELSE IF /\ Member(parameterDefinition, "type") = S("array")
          /\ ~isUndefined(Defaulted(parameterDefinition, parameterValue))
          /\ ~(isNull(parameterValue) /\ ~isUndefined(Member(parameterDefinition, "x-nullable")))
  THEN {ArrayCase(Member(parameterDefinition, "name"), Member(parameterDefinition, "items"),
                  Defaulted(parameterDefinition, parameterValue))}
  ELSE {}
\* the sequences handed to validateArray for a declared property of a map
PropertyArrays ==
  UNION {{ArrayCase(S(p.key), Member(p.info, "items"), Member(c.value, p.key)) :
            p \in {q \in Declared(c) :
                     /\ Member(q.info, "type") = S("array")
                     /\ ~isUndefined(Member(c.value, q.key))
                     /\ ~(isNull(Member(c.value, q.key))
                          /\ ~isUndefined(Member(q.info, "x-nullable")))}} : c \in Cases}
\* the elements handed to validateArray, as line 292 hands them: without items
ElementArrays(cases) ==
  UNION {IF isArray(c.value) /\ Truthy(c.items) /\ Member(c.items, "type") = S("array")
         THEN {ArrayCase(c.name, Undefined, item) : item \in Elements(c.value.a)}
         ELSE {} : c \in cases}
ArrayCases ==
  ParameterArrays \cup PropertyArrays \cup ElementArrays(ParameterArrays \cup PropertyArrays)

\* validateArray on the case, and the validation of its i-th element
WholeArray(c) == validateArray(c.name, S("array"), Undefined, c.items, c.value, 1)
Element(c, i) ==
  validateValueType(c.name, Member(ItemsInfo(c.items, c.name).v, "type"),
                    Member(ItemsInfo(c.items, c.name).v, "format"),
                    Member(ItemsInfo(c.items, c.name).v, "x-nullable"), Undefined,
                    Member(ItemsInfo(c.items, c.name).v, "properties"),
                    Member(ItemsInfo(c.items, c.name).v, "required"), c.value.a[i], 1)
ElementsValidate(c) ==
  /\ isArray(c.value) /\ Truthy(c.items)
  /\ Returned(ItemsInfo(c.items, c.name)) /\ ~Nullish(ItemsInfo(c.items, c.name).v)
  /\ \A i \in DOMAIN c.value.a : Returned(Element(c, i))

(* C12: validateArray fails with a Type error when the raw value is not a
   sequence or when it is given no items; otherwise, when every element
   validates, it returns a sequence as long as the input whose i-th element is
   the validated i-th input element *)
C12_ArrayIsValidatedElementWise ==
  \A c \in ArrayCases :
    /\ (~isArray(c.value) \/ ~Truthy(c.items)) =>
         (Thrown(WholeArray(c)) /\ WholeArray(c).e.ctor = "TypeValidationError")
    /\ ElementsValidate(c) =>
         /\ Returned(WholeArray(c))
         /\ isArray(WholeArray(c).v)
         /\ Len(WholeArray(c).v.a) = Len(c.value.a)
         /\ \A i \in DOMAIN c.value.a : WholeArray(c).v.a[i] = Element(c, i).v
\* a body of three elements validated to three integers in the same order
C12_ThreeItems ==
  /\ pc = "validated" /\ InBody
  /\ Member(parameterDefinition, "name") = S("items")
  /\ parameterValue = Arr(<<Text(<<"1", "2">>), Num(-3), Num(7)>>)
  /\ Returned(outcome) /\ outcome.v = Arr(<<Num(12), Num(-3), Num(7)>>)

\* the i-th element validated with the per-value steps: the null check of
\* validateValue, then the type dispatch with the items the element schema declares
FullElement(c, i) ==
  validateValue(c.name, Member(ItemsInfo(c.items, c.name).v, "type"),
                Member(ItemsInfo(c.items, c.name).v, "format"),
                Member(ItemsInfo(c.items, c.name).v, "x-nullable"),
                Member(ItemsInfo(c.items, c.name).v, "items"),
                Member(ItemsInfo(c.items, c.name).v, "properties"),
                Member(ItemsInfo(c.items, c.name).v, "required"), c.value.a[i], 1)
\* the sequences whose element schema is known
WithItems ==
  {c \in ParameterArrays \cup PropertyArrays :
     /\ isArray(c.value) /\ Truthy(c.items)
     /\ Returned(ItemsInfo(c.items, c.name)) /\ ~Nullish(ItemsInfo(c.items, c.name).v)}

(* C13: each element of a sequence is validated with the full per-value
   steps: a null element is null under 'x-nullable: true' and a Nullable error
   under 'x-nullable: false', and an element whose schema is an array with its
   own items is validated element-wise against them *)
C13_ElementsGetTheFullSteps ==
  \A c \in WithItems : \A i \in DOMAIN c.value.a :
    /\ (isNull(c.value.a[i]) /\ Member(c.items, "x-nullable") = Bool(TRUE)) =>
         (Returned(Element(c, i)) /\ Element(c, i).v = Null)
    /\ (isNull(c.value.a[i]) /\ Member(c.items, "x-nullable") = Bool(FALSE)) =>
         (Thrown(Element(c, i)) /\ Element(c, i).e.ctor = "NullableValidationError")
    /\ (Member(c.items, "type") = S("array") /\ Truthy(Member(c.items, "items"))) =>
         /\ Element(c, i).t = FullElement(c, i).t
         /\ Returned(FullElement(c, i)) => Element(c, i).v = FullElement(c, i).v

\* the outer type of the schema of the validated body parameter
SchemaType == Member(Member(parameterDefinition, "schema"), "type")
Supplied == ~isUndefined(parameterValue)

(* C14: a body parameter is validated only through a schema whose outer type
   is 'object' or 'array': without a schema, or with a schema of any other
   outer type, every supplied body fails with a Type error *)
C14_BodyNeedsObjectOrArraySchema ==
  (/\ Validated /\ InBody /\ Supplied
   /\ \/ ~Truthy(Member(parameterDefinition, "schema"))
      \/ SchemaType \notin {S("object"), S("array")}) =>
    /\ Failed(outcome, "TypeValidationError")
    /\ outcome.e.code = CODES.VALIDATION_TYPE
\* a text body under a schema of type string
C14_TextUnderStringSchema ==
  /\ pc = "validated" /\ InBody
  /\ Truthy(Member(parameterDefinition, "schema")) /\ SchemaType = S("string")
  /\ parameterValue = Text(<<"a", "b", "c">>)
  /\ Failed(outcome, "TypeValidationError")

RECURSIVE Tagged(_, _)
\* value with every map and sequence in it marked by its place in value, so
\* that a container of the raw input is told from one built by the validators
Tagged(value, place) ==
  CASE value.k = "object" ->
         [k |-> "object", id |-> place,
          o |-> [i \in DOMAIN value.o |->
                   [key |-> value.o[i].key,
                    val |-> Tagged(value.o[i].val, Append(place, i))]]]
    [] value.k = "array" ->
         [k |-> "array", id |-> place,
          a |-> [i \in DOMAIN value.a |-> Tagged(value.a[i], Append(place, i))]]
    [] OTHER -> value
RECURSIVE WithoutTags(_)
WithoutTags(value) ==
  CASE value.k = "object" ->
         Obj([i \in DOMAIN value.o |->
                [key |-> value.o[i].key, val |-> WithoutTags(value.o[i].val)]])
    [] value.k = "array" -> Arr([i \in DOMAIN value.a |-> WithoutTags(value.a[i])])
    [] OTHER -> value
RECURSIVE SharesContainer(_)
\* value is, or holds at some level, a container of the raw input
SharesContainer(value) ==
  CASE value.k = "object" ->
         "id" \in DOMAIN value \/ \E i \in DOMAIN value.o : SharesContainer(value.o[i].val)
    [] value.k = "array" ->
         "id" \in DOMAIN value \/ \E i \in DOMAIN value.a : SharesContainer(value.a[i])
    [] OTHER -> FALSE
IsContainer(value) == value.k \in {"object", "array"}
\* the validation of the state, run on the raw value with its containers marked
OnTagged == validateOne(parameterDefinition, Tagged(parameterValue, <<>>))

(* C15: validating a parameter leaves the raw value as it was passed; a
   result that is a map or a sequence is built anew and holds no container of
   the raw value at any level; a failure returns no value, partial or not *)
C15_ResultIsFresh ==
  Validated =>
    /\ OnTagged.t = outcome.t
    /\ Returned(OnTagged) =>
         /\ WithoutTags(OnTagged.v) = outcome.v
         /\ IsContainer(OnTagged.v) => ~SharesContainer(OnTagged.v)
    /\ Thrown(outcome) => DOMAIN outcome = {"t", "e", "depth"}
\* a book with a nested publisher map, validated to a map
C15_NestedMapValidated ==
  /\ pc = "validated" /\ InBody /\ Returned(outcome)
  /\ parameterValue.k = "object" /\ Member(parameterValue, "publisher").k = "object"
  /\ outcome.v.k = "object" /\ Member(outcome.v, "publisher").k = "object"

\* what validateParameters leaves of a request when it is served alone
Alone(request) == validateParameters(request.received, DefinitionsOf(request))
\* readSpec's result for the document of the state
LoadedSpec ==
  [resolved |-> koaspec(document, Undefined).v.spec, refs |-> koaspec(document, Undefined).v.refs]

(* C16: validation touches no shared state: the resolved document and the
   pointer table stay as they were loaded whatever was validated, and in any
   order of serving two or more requests each one is left with the typed
   values, or the error, it gets when it is served alone *)
C16_RequestsAreIndependent ==
  /\ (pc = "loaded" /\ isUndefined(refOptions)) => spec = LoadedSpec
  /\ \A r \in DOMAIN requests :
       requests[r].status # "received" =>
         /\ requests[r].ctx = Alone(requests[r]).ctx
         /\ requests[r].status = "rejected" <=> Alone(requests[r]).t = "throw"
         /\ requests[r].status = "rejected" =>
              requests[r].response =
                BadRequest(requests[r].method, requests[r].route, Alone(requests[r]).e)
\* two different requests in hand: the first passed and waits for its
\* controller, the second was rejected
C16_TwoRequestsValidated ==
  /\ Len(requests) = 2
  /\ requests[1].status = "downstream" /\ requests[1].ctx # requests[1].received
  /\ requests[2].status = "rejected" /\ requests[2].received # requests[1].received

\* s is wholly a signed run of decimal digits
IntegerLiteral(s) ==
  /\ Unsigned(s) # <<>>
  /\ \A i \in DOMAIN Unsigned(s) : IsDigit(Unsigned(s)[i])
\* the raw value is an integer, or a string that writes one in full
DenotesInteger(value) ==
  \/ value.k = "number" /\ value.fp = <<>>
  \/ value.k = "string" /\ IntegerLiteral(value.s)
IntegerDenoted(value) ==
  IF value.k = "number" THEN value
  ELSE Scaled(Negative(value.s), [i \in DOMAIN Unsigned(value.s) |-> DigitVal(Unsigned(value.s)[i])],
              Len(Unsigned(value.s)))
\* a parameter of the given type and format, read from a source the validator knows
Scalar(type, format) ==
  /\ Validated
  /\ Member(parameterDefinition, "in") \in {S("path"), S("query"), S("formData")}
  /\ Member(parameterDefinition, "type") = S(type)
  /\ Member(parameterDefinition, "format") = format

(* C17: for type integer with format int32 a raw value denoting the integer
   n is accepted and returned as n when -2147483648 <= n <= 2147483647, and
   rejected with a Format error when n is outside that range *)
C17_Int32RangeIsEnforced ==
  (Scalar("integer", S("int32")) /\ DenotesInteger(parameterValue)) =>
    IF \/ Less(IntegerDenoted(parameterValue), INTEGER_INT32_MIN_VALUE)
       \/ Greater(IntegerDenoted(parameterValue), INTEGER_INT32_MAX_VALUE)
    THEN Failed(outcome, "FormatValidationError")
    ELSE Returned(outcome) /\ outcome.v = IntegerDenoted(parameterValue)

Star(of) == [op |-> "rep", of |-> of, min |-> 0, max |-> 0, open |-> TRUE]
SignChar == Chr({"+", "-"})
\* a decimal literal from end to end: /^[+-]?(\d+(\.\d*)?|\.\d+)(e[+-]?\d+)?$/i
NUMERAL_RE ==
  Cat(<<Opt(SignChar),
        Alt(<<Cat(<<Plus(Digit), Opt(Cat(<<Lit("."), Star(Digit)>>))>>),
              Cat(<<Lit("."), Plus(Digit)>>)>>),
        Opt(Cat(<<Lit("e"), Opt(SignChar), Plus(Digit)>>)),
        EndOfInput>>)
\* the number the whole raw value denotes, NaN when it denotes none
Denoted(value) ==
  IF value.k = "number" THEN value
  ELSE IF value.k = "string" /\ Test(NUMERAL_RE, TrimStart(value.s)) THEN parseFloat(value)
  ELSE NaN
\* a number or a string validated as a parameter of type integer
IntegerParameter ==
  /\ Validated
  /\ Member(parameterDefinition, "in") \in {S("path"), S("query"), S("formData")}
  /\ Member(parameterDefinition, "type") = S("integer")
  /\ parameterValue.k \in {"number", "string"}

(* C18: integer validation never changes the value silently: a raw number
   or string whose denoted value has a fractional part, or differs from what
   the integer parse reads (an exponent form, trailing characters), fails with
   a Type error, and a returned integer is the value the raw input denotes *)
C18_IntegerIsNeverChanged ==
  IntegerParameter =>
    /\ (\/ HasFraction(Denoted(parameterValue))
        \/ parseInt(parameterValue) # Denoted(parameterValue)) =>
         Failed(outcome, "TypeValidationError")
    /\ Returned(outcome) => outcome.v = Denoted(parameterValue)

\* the value the type dispatch receives for the validated parameter
Dispatched == Defaulted(parameterDefinition, parameterValue)
\* a parameter of the given type whose value reaches the validator of the type
Reaches(type) ==
  /\ Validated
  /\ Member(parameterDefinition, "in") \in {S("path"), S("query"), S("formData")}
  /\ Member(parameterDefinition, "type") = S(type)
  /\ ~isUndefined(Dispatched)
  /\ ~(isNull(Dispatched) /\ ~isUndefined(Member(parameterDefinition, "x-nullable")))
Format == Member(parameterDefinition, "format")
\* the outcome for a value that passes, or not, the check of its type
TypeThenFormat(passes, formats) ==
  /\ ~passes => Failed(outcome, "TypeValidationError")
  /\ (passes /\ Format \notin formats) => Failed(outcome, "FormatValidationError")

(* C19: format dispatch is closed and comes after the type check: an integer
   whose format is not int32 or int64, or a number whose format is not float
   or double, a missing format included, fails with a Format error; a string
   without format is returned unchanged and one whose format is not uuid, isbn
   or date-time fails with a Format error; a value that fails the check of its
   type fails with a Type error whatever the format *)
C19_FormatDispatchIsClosed ==
  /\ Reaches("integer") =>
       TypeThenFormat(~isNaN(parseInt(Dispatched)) /\ ~HasFraction(parseFloat(Dispatched)),
                      {S("int32"), S("int64")})
  /\ Reaches("number") =>
       TypeThenFormat(~isNaN(parseFloat(Dispatched)), {S("float"), S("double")})
  /\ Reaches("string") =>
       /\ TypeThenFormat(isString(Dispatched),
                         {Undefined, S("uuid"), S("isbn"), S("date-time")})
       /\ (isString(Dispatched) /\ isUndefined(Format)) =>
            (Returned(outcome) /\ outcome.v = Dispatched)
\* a string under the unknown format 'email'
C19_UnknownStringFormat ==
  /\ Reaches("string") /\ Format = S("email")
  /\ parameterValue = Text(<<"a", "b", "c">>)
  /\ Failed(outcome, "FormatValidationError")

\* the places of the parameters of a request that declare a source the
\* validator does not know
UnknownSources(request) ==
  {i \in DOMAIN DefinitionsOf(request) :
     Member(DefinitionsOf(request)[i], "in")
       \notin {S("path"), S("query"), S("body"), S("formData")}}
\* the response is that of a Source error wrapped once in a Parameter error
SourceRejected(request) ==
  /\ request.status = "rejected"
  /\ Alone(request).e.ctor = "ParameterValidationError"
  /\ Alone(request).e.cause.ctor = "SourceValidationError"
  /\ request.response.status = 400
  /\ request.response.body.code = CODES.VALIDATION_SOURCE
  /\ request.response.body.code = Num(100)
  /\ Member(request.response.body.parameter.expected, "in") = S("header")
\* the parameters before place i validate for the ctx the request came with
PassesBefore(request, i) ==
  validateParameters(request.received, SubSeq(DefinitionsOf(request), 1, i - 1)).t = "return"
Handed(request) == request.status # "received"

(* C20 as stated: a request to an operation that declares a parameter whose
   source is not path, query, body or formData always fails with a Source
   error, code 100, wrapped once in a Parameter error, whatever it carries *)
C20_UnknownSourceAlwaysFails ==
  \A r \in DOMAIN requests :
    (Handed(requests[r]) /\ UnknownSources(requests[r]) # {}) => SourceRejected(requests[r])

(* C20: a request to an operation that declares a parameter whose source is
   not path, query, body or formData fails, whatever it carries; it fails with
   a Source error, code 100, wrapped once in a Parameter error when the
   parameters declared before that one validate, required or not *)
C20_UnknownSourceFailsInItsTurn ==
  \A r \in DOMAIN requests :
    (Handed(requests[r]) /\ UnknownSources(requests[r]) # {}) =>
      /\ requests[r].status = "rejected"
      /\ \A i \in UnknownSources(requests[r]) :
           (/\ PassesBefore(requests[r], i)
            /\ \A j \in UnknownSources(requests[r]) : i <= j) => SourceRejected(requests[r])
\* the parameters before 'token' validated, and the request failed on its source
C20_HeaderAfterValidQuery ==
  /\ Len(requests) >= 1
  /\ requests[1].method = S("get") /\ requests[1].route = S("/search")
  /\ Get(requests[1].received.query, "q") = Text(<<"x">>)
  /\ Get(requests[1].ctx.query, "total") = Num(5)
  /\ SourceRejected(requests[1])

\* the value the request came with for a parameter, and the one it holds now
Raw(request, i) == getParameterValue(request.received, DefinitionsOf(request)[i]).v
Held(request, i) == getParameterValue(request.ctx, DefinitionsOf(request)[i]).v
\* the first i parameters of the request, validated in turn on what it came with
UpTo(request, i) ==
  validateParameters(request.received, SubSeq(DefinitionsOf(request), 1, i))
\* the place of the parameter whose validation fails
FailingPlaces(request) ==
  {i \in DOMAIN DefinitionsOf(request) :
     UpTo(request, i - 1).t = "return" /\ UpTo(request, i).t = "throw"}
\* the response the claim describes for a failure at place i
ValidationResponse(request, i) ==
  [status |-> 400,
   body |-> [code |-> validateParameter(DefinitionsOf(request)[i], Raw(request, i)).e.code,
             message |-> validateParameter(DefinitionsOf(request)[i], Raw(request, i)).e.message,
             route |-> [method |-> request.method, path |-> request.route],
             parameter |-> [expected |-> DefinitionsOf(request)[i],
                            actual |-> Defaulted(DefinitionsOf(request)[i], Raw(request, i))]]]

(* C21: the controller is dispatched only after every declared parameter has
   validated, and then sees the typed values in params, query and body; when
   a parameter fails the controller is never dispatched and validateRequest
   answers with status 400 and a body holding the code and message of the
   error, the method and path of the route, the parameter definition as
   parameter.expected and the offending value as parameter.actual *)
C21_DispatchAfterValidation ==
  \A r \in DOMAIN requests :
    /\ requests[r].dispatched > 0 =>
         /\ requests[r].dispatched = 1
         /\ Alone(requests[r]).t = "return"
         /\ \A i \in DOMAIN DefinitionsOf(requests[r]) :
              Held(requests[r], i) =
                validateParameter(DefinitionsOf(requests[r])[i], Raw(requests[r], i)).v
    /\ (Handed(requests[r]) /\ Alone(requests[r]).t = "throw") =>
         /\ requests[r].dispatched = 0
         /\ \E i \in FailingPlaces(requests[r]) :
              requests[r].caught = ValidationResponse(requests[r], i)
         /\ requests[r].debugged = 0 => requests[r].response = requests[r].caught
\* the controller echoed the id it found in the query: the integer 7, not the text '7'
C21_TypedIdDispatched ==
  /\ requests # <<>>
  /\ requests[1].status = "responded" /\ requests[1].dispatched = 1
  /\ Member(requests[1].received.query, "id") = Text(<<"7">>)
  /\ requests[1].response = [status |-> 200, body |-> [id |-> Num(7)]]

\* a parameter has been validated and failed
ParameterFailed == pc \in {"validated", "revalidated"} /\ Thrown(outcome)
\* the error is a Parameter error around a cause that is not one, with the
\* code and message of the cause and the definition of the parameter
WrapsOnce ==
  /\ outcome.e.ctor = "ParameterValidationError"
  /\ outcome.e.cause.ctor # "ParameterValidationError"
  /\ outcome.e.code = Prop(outcome.e.cause, "code")
  /\ outcome.e.message = Prop(outcome.e.cause, "message")
  /\ outcome.e.parameterDefinition = parameterDefinition
KnownSource == Member(parameterDefinition, "in") \in {S("path"), S("query"), S("body"), S("formData")}
\* nothing was supplied for a parameter that is not required and has a default
DefaultTaken ==
  /\ isUndefined(parameterValue)
  /\ ~Truthy(Member(parameterDefinition, "required"))
  /\ ~isUndefined(Member(parameterDefinition, "default"))

(* C22 as stated: every failure of a parameter's validation is a Parameter
   error that wraps the original error exactly once, with the code and
   message of its cause, the definition of the parameter, and as
   parameterValue the raw value that was supplied for the parameter *)
C22_WrapsOnceWithSuppliedValue ==
  ParameterFailed => (WrapsOnce /\ outcome.e.parameterValue = parameterValue)

(* C22, amended: every failure of a parameter's validation is a Parameter
   error that wraps the original error exactly once, with the code and
   message of its cause and the definition of the parameter; its
   parameterValue is the value that was validated: the supplied value, or the
   declared default when nothing was supplied for a parameter that is not
   required, and undefined when the source of the parameter is not one of
   path, query, body, formData *)
C22_WrapsOnceWithValidatedValue ==
  ParameterFailed =>
    /\ WrapsOnce
    /\ outcome.e.parameterValue =
         IF ~KnownSource THEN Undefined
         ELSE IF DefaultTaken THEN Member(parameterDefinition, "default")
         ELSE parameterValue
\* nothing was supplied for 'page', whose default 'first' is no integer
C22_InvalidDefaultReported ==
  /\ ParameterFailed /\ KnownSource /\ DefaultTaken
  /\ outcome.e.parameterValue = S("first")
  /\ outcome.e.cause.ctor = "TypeValidationError"

(* C23: sibling parameters of a request are validated independently: when a
   declared parameter fails, the other declared parameters of the request are
   checked all the same, so a request that went through the validator has no
   declared parameter left unchecked *)
C23_SiblingsAreAllChecked ==
  \A r \in DOMAIN requests :
    Handed(requests[r]) => requests[r].unchecked = <<>>

\* spec.router() has been called
RouterCalled == pc \in {"built", "unbuilt"}
\* the options ask for strict mode, or do not say
StrictAsked ==
  \/ routerOptions.k # "object"
  \/ ~HasOwn(routerOptions, "strictMode")
  \/ Get(routerOptions, "strictMode") = Bool(TRUE)
\* the controller directory the options give, or the default one
DirectoryAsked ==
  IF routerOptions.k = "object" /\ HasOwn(routerOptions, "controllerDirectory")
  THEN Get(routerOptions, "controllerDirectory").s[1]
  ELSE "./controllers"
\* the operations the document declares
DeclaredOperations ==
  {RouteEntries(Member(document, "paths"))[i] :
     i \in DOMAIN RouteEntries(Member(document, "paths"))}
\* the operation names no controller, or one that is not in the directory
Unresolved(methodInfo) ==
  \/ ~HasOwn(methodInfo, "x-controller")
  \/ <<DirectoryAsked, Get(methodInfo, "x-controller").s[1]>> \notin DOMAIN Modules
\* the operation names no method, or one the controller has no function for
Unexported(methodInfo) ==
  /\ ~Unresolved(methodInfo)
  /\ \/ ~HasOwn(methodInfo, "x-controller-method")
     \/ ~Truthy(Member(Modules[<<DirectoryAsked, Get(methodInfo, "x-controller").s[1]>>],
                       Get(methodInfo, "x-controller-method").s[1]))
Faulty(methodInfo) ==
  \/ ~HasOwn(methodInfo, "x-controller")
  \/ Unresolved(methodInfo)
  \/ Unexported(methodInfo)
\* building threw a RouteError and returned no router
RouteErrorThrown == pc = "unbuilt" /\ router.t = "throw" /\ router.e.ctor = "RouteError"

(* C24 as stated: in strict mode (the default when strictMode is not given)
   building the router throws a RouteError and returns no router whenever a
   declared operation has no x-controller, names a controller that cannot be
   resolved, has no x-controller-method, or names a method the controller
   does not export *)
C24_StrictModeThrowsRouteError ==
  (RouterCalled /\ StrictAsked /\ \E op \in DeclaredOperations : Faulty(op.methodInfo))
    => RouteErrorThrown

(* C24, amended: in strict mode, and when the controller directory exists,
   building the router throws a RouteError and returns no router whenever a
   declared operation has no x-controller, names a controller that cannot be
   resolved, has no x-controller-method, or names a method for which the
   controller has no function; when the controller directory does not exist
   building throws a RouterError whatever the operations are *)
C24_StrictModeThrowsInDirectory ==
  /\ (RouterCalled /\ StrictAsked /\ DirectoryAsked \in Directories
        /\ \E op \in DeclaredOperations : Faulty(op.methodInfo))
       => RouteErrorThrown
  /\ (RouterCalled /\ DirectoryAsked \notin Directories)
       => (pc = "unbuilt" /\ router.t = "throw" /\ router.e.ctor = "RouterError"
           /\ router.registered = <<>>)
\* strictMode is not given and '/extra' names the method 'missing', which
\* ItemController does not export
C24_MissingMethodByDefault ==
  /\ RouteErrorThrown
  /\ routerOptions.k = "object" /\ ~HasOwn(routerOptions, "strictMode")
  /\ \E op \in DeclaredOperations :
       Unexported(op.methodInfo) /\ Member(op.methodInfo, "x-controller-method") = S("missing")
  /\ router.e.route = S("/extra")

\* the options switch strict mode off
StrictOff ==
  /\ routerOptions.k = "object" /\ HasOwn(routerOptions, "strictMode")
  /\ Get(routerOptions, "strictMode") = Bool(FALSE)
\* the operation names a controller that cannot be resolved, or a method its
\* controller has no function for
Fallen(methodInfo) ==
  /\ HasOwn(methodInfo, "x-controller")
  /\ \/ Unresolved(methodInfo)
     \/ HasOwn(methodInfo, "x-controller-method") /\ Unexported(methodInfo)
\* the operations as the factory meets them
Met == RouteEntries(Member(document, "paths"))
\* the answer of the fallback handler
NotImplemented(method, route) ==
  [status |-> 501,
   body |-> [code |-> Num(3),
             message |-> <<S("["), method, S(" "), route, S("] Route not implemented.")>>,
             route |-> [method |-> method, path |-> route]]]

(* C25: with strict mode off, an operation whose controller cannot be
   resolved, or whose controller lacks the named method, makes the build
   throw nothing: when the build throws, it is for another reason (the
   controller directory, or an operation without controller, without method
   name or under an unknown key); the operation is registered with the
   fallback handler, and every request to it that passes parameter
   validation gets status 501 and a body with code 3, a message, and the
   method and path of the route *)
C25_FallbackWhenNotStrict ==
  (RouterCalled /\ StrictOff) =>
    /\ (router.t = "throw" /\ router.e.ctor = "RouteError"
          /\ Fallen(Met[Len(router.registered) + 1].methodInfo))
         => /\ Met[Len(router.registered) + 1].method \notin RouterMembers
            /\ router.e.message[6] =
                 Str(<<"Method '", Met[Len(router.registered) + 1].method, "' does not exist.">>)
    /\ \A i \in DOMAIN router.registered :
         Fallen(Met[i].methodInfo) =>
           /\ router.registered[i].method = S(Met[i].method)
           /\ router.registered[i].route = S(Met[i].route)
           /\ router.registered[i].controllerMethod.name = "notImplemented"
    /\ pc = "built" => Len(router.registered) = Len(Met)
    /\ \A r \in DOMAIN requests :
         (/\ requests[r].status = "responded"
          /\ Alone(requests[r]).t = "return"
          /\ \E i \in DOMAIN Met :
               /\ Fallen(Met[i].methodInfo)
               /\ S(Met[i].method) = requests[r].method
               /\ S(Met[i].route) = requests[r].route)
           => requests[r].response = NotImplemented(requests[r].method, requests[r].route)
\* GET /extra names the method 'missing' and requires 'id': a request with
\* id=7 is answered by the fallback
C25_NotImplementedAnswered ==
  /\ RouterCalled /\ StrictOff /\ requests # <<>>
  /\ requests[1].route = S("/extra") /\ requests[1].status = "responded"
  /\ Member(requests[1].ctx.query, "id") = Num(7)
  /\ requests[1].response.status = 501
  /\ requests[1].response.body.code = Num(3)

\* getControllerMethod throws for the operation: always without a controller
\* name, or without a method name for a controller that resolves; in strict
\* mode also for a controller or method that is not there
ControllerFault(methodInfo) ==
  \/ ~HasOwn(methodInfo, "x-controller")
  \/ ~Unresolved(methodInfo) /\ ~HasOwn(methodInfo, "x-controller-method")
  \/ ~StrictOff /\ (Unresolved(methodInfo) \/ Unexported(methodInfo))
\* the error for an operation key the router has no method for
NoSuchMethod(entry) ==
  [ctor |-> "RouteError", name |-> S("RouteError"), code |-> Num(2),
   message |-> <<S("["), S(entry.method), S(" "), S(entry.route), S("] "),
                 Str(<<"Method '", entry.method, "' does not exist.">>)>>,
   method |-> S(entry.method), route |-> S(entry.route)]
\* the place of the operation the factory was at when it threw
FailingPlace == Len(router.registered) + 1

(* C26: building the router throws the RouteError "Method '<m>' does not
   exist." for an operation key that is no method of the underlying router;
   the controller of that operation is resolved first, so a controller error
   is the one reported when there is one; the operations met before the
   failing one have been registered, in their order, on a router that is not
   returned *)
C26_UnknownMethodThrows ==
  (RouterCalled /\ DirectoryAsked \in Directories) =>
    /\ (\E i \in DOMAIN Met : Met[i].method \notin RouterMembers)
         => /\ pc = "unbuilt" /\ router.t = "throw" /\ router.e.ctor = "RouteError"
            /\ requests = <<>>
            /\ \A i \in DOMAIN Met : Met[i].method \notin RouterMembers => FailingPlace <= i
    /\ router.t = "throw" =>
         /\ FailingPlace \in DOMAIN Met
         /\ IF ControllerFault(Met[FailingPlace].methodInfo)
            THEN router.e.ctor = "RouteError" /\ router.e # NoSuchMethod(Met[FailingPlace])
            ELSE /\ Met[FailingPlace].method \notin RouterMembers
                 /\ router.e = NoSuchMethod(Met[FailingPlace])
    /\ \A i \in DOMAIN router.registered :
         /\ router.registered[i].method = S(Met[i].method)
         /\ router.registered[i].route = S(Met[i].route)
         /\ Met[i].method \in RouterMembers
         /\ ~ControllerFault(Met[i].methodInfo)
\* '/items' comes first and its three operations are registered; then the key
\* 'unknown' names a controller that is not there, and strict mode reports
\* the controller
C26_ControllerReportedFirst ==
  /\ pc = "unbuilt" /\ ~StrictOff /\ DirectoryAsked \in Directories
  /\ Len(router.registered) = 3
  /\ Met[FailingPlace].method = "unknown"
  /\ Unresolved(Met[FailingPlace].methodInfo)
  /\ router.e.message[6] = Str(<<"Controller '", "UnknownController", "' does not exist.">>)

(* C27: a failed request leaves the request unmodified: when the validation
   of a declared parameter fails, params, query and body hold the values
   they held before validation started *)
C27_FailedRequestIsUntouched ==
  \A r \in DOMAIN requests :
    (Handed(requests[r]) /\ Alone(requests[r]).t = "throw")
      => requests[r].ctx = requests[r].received

(* C28: the request validator answers with status 400 only when a declared
   parameter failed validation: a request whose parameters all validate is
   answered with the status and body the controller set, and an exception the
   controller raises is not turned into the 400 of a validation failure *)
C28_OnlyValidationFailuresGive400 ==
  \A r \in DOMAIN requests :
    (requests[r].status = "responded" /\ Alone(requests[r]).t = "return")
      => /\ requests[r].caught = Undefined
         /\ requests[r].response.status # 400
         /\ Returned(Controller(requests[r].controllerMethod, requests[r].ctx))
              => requests[r].response =
                   Controller(requests[r].controllerMethod, requests[r].ctx).v

(* C29: validating a value that is not a map (a number, a string, a boolean
   or a sequence) against an object schema yields a Type error: such a value
   is never accepted as an object and never gives an empty or partly filled
   map *)
C29_NonMapIsATypeError ==
  (/\ Validated /\ InBody
   /\ Truthy(Member(parameterDefinition, "schema")) /\ SchemaType = S("object")
   /\ parameterValue.k \in {"number", "string", "boolean", "array"})
    => Failed(outcome, "TypeValidationError")

\* the request went through the catch block of validateRequest
ErrorPath(request) == request.error # Undefined
\* the router was built with a request debug error handler
HandlerGiven(request) ==
  request.requestDebugErrorHandler \notin {Undefined, Null}

(* C30: the request debug error handler is invoked exactly once for a request
   that ends in the error path of validateRequest and never for a request
   that succeeds; when it is invoked status 400 and the error body have been
   set, and the status and body the handler sets are the ones the client
   receives *)
C30_DebugHandlerRunsOnceOnErrors ==
  \A r \in DOMAIN requests :
    /\ requests[r].debugged <= 1
    /\ requests[r].debugged = 1 => (ErrorPath(requests[r]) /\ HandlerGiven(requests[r]))
    /\ requests[r].status = "caught" =>
         /\ requests[r].debugged = 0 /\ ErrorPath(requests[r]) /\ HandlerGiven(requests[r])
         /\ requests[r].response = requests[r].caught
         /\ requests[r].caught.status = 400
         /\ requests[r].caught.body.message = requests[r].error.message
    /\ requests[r].status = "responded" =>
         /\ ~ErrorPath(requests[r]) => requests[r].debugged = 0
         /\ (ErrorPath(requests[r]) /\ ~HandlerGiven(requests[r])) =>
              (requests[r].debugged = 0 /\ requests[r].response = requests[r].caught)
         /\ (ErrorPath(requests[r]) /\ HandlerGiven(requests[r])) =>
              /\ requests[r].debugged = 1
              /\ requests[r].caught.status = 400
              /\ requests[r].response =
                   IF requests[r].requestDebugErrorHandler.name = "teapot"
                   THEN [status |-> 418, body |-> S("I'm a teapot!")]
                   ELSE requests[r].caught
\* a request without its required id, answered by the handler that turns
\* the 400 into a 418
C30_TeapotAnswered ==
  /\ requests # <<>> /\ requests[1].status = "responded"
  /\ requests[1].debugged = 1 /\ requests[1].dispatched = 0
  /\ requests[1].caught.status = 400 /\ requests[1].caught.body.code = Num(101)
  /\ requests[1].response.status = 418

====
